---- MODULE Spec2Model ----
(***************************************************************************)
(* Model of the log inspection code of docker-container-manager            *)
(* (src/dockerModule.js) and of the live-tail WebSocket endpoint           *)
(* (src/api/server.js).                                                    *)
(*                                                                         *)
(* A log file is a sequence of newline-terminated lines.  A line is a      *)
(* record [ts, len]: ts is the instant of its leading timestamp token      *)
(* (Null for a continuation line), len its length in bytes, the newline    *)
(* included.  Byte offsets are computed from the lengths, so every read    *)
(* window of the code keeps its real width.                                *)
(***************************************************************************)
EXTENDS Integers, Sequences, FiniteSets, TLC

\* ------------------------------------------------------------------ bounds
MaxLines == 3
MaxTs == 3
MaxCacheLines == 2
MaxCacheTs == 2
MaxInode == 2
MaxAppend == 3
MaxPageTs == 2
MaxNameParts == 4
MaxFlips == 2

\* a slice size a configuration could cap reads at
SoftCap == 600

\* a continuation line longer than one chunk of the forward scan
LONG_LINE == 600

\* ------------------------------------------------------- program constants
CHUNK_SIZE == 256
EXTRACT_BUF == 100
SCAN_CHUNK == 512
TsTokenLen == 23
SCAN_LIMIT == 50 * 1024
BACK_CHUNK == 10 * 1024
MAX_SCAN_BACK == 100 * 1024
HEADER_SIG_LEN == 64
DEFAULT_LIMIT == 1000

\* JS null / absent timestamp
Null == 0

\* byte lengths a line may have: a short line, a line longer than the
\* 64-byte header, a line longer than the 256-byte search window
LineLens == {30, 300}

\* line lengths of the time-range cache model: a timestamped line shorter
\* than the 64-byte header, a continuation line longer than the header, a
\* continuation line longer than the 100 KiB backward scan
SHORT_LINE == 30
BANNER_LINE == 70
HUGE_LINE == 110000

VARIABLES
    file,      \* content of the log file
    sres,      \* the last search call and its result
    inode,     \* stats.ino of the log file
    isLog,     \* the file name ends in .log (active file)
    sidecar,   \* content of <file>.timecache, NoSidecar when it does not exist
    ret,       \* the last getLogFileTimeRange call: what it read and returned
    winode,    \* stats.ino of the log file when the sidecar was last written
    since,     \* what happened to the log file since the sidecar was written
    tailFile,  \* the lines of the followed log file, in append order
    ws,        \* per WebSocket client: the socket's readyState
    pc,        \* per client: where its upgrade handler stands
    search,    \* per client: the search query parameter
    tail,      \* per client: the Tail instance monitorServiceLogs created
    calls,     \* per client: the lines passed to onLineCallback, in order
    sent,      \* per client: the lines passed to ws.send, in order
    recv,      \* per client: how many sent lines the client has received
    unwatched, \* per client: how many times the returned unwatch() has run
    processingPowerAction, \* the module-level Set of in-flight action kinds
    pw,        \* per HTTP request of the power endpoint: its powerAction call
    disk,      \* the bytes of <file>.timecache as concurrent calls leave them
    gt,        \* per concurrent getLogFileTimeRange call: where it stands
    rq,        \* per HTTP request of the log endpoints: its call and outcome
    dir,       \* the entries of the service's logs directory
    listed,    \* the last answer of getServiceLogs and the directory it saw
    bs,        \* the binary search of #findOffsetByTime, iteration by iteration
    envFile,   \* the .env file of the service: the value of each key, 0 if absent
    env0,      \* the .env file before the first writeServiceEnvConfig call
    ew,        \* per writeServiceEnvConfig call: where it stands, what it read
    up,        \* per service: whether its containers are running
    flips,     \* how many times a service went up or down
    serviceStatusState, \* server.js: the recorded status of each service
    poll,      \* per polling round: where it stands
    casts,     \* per service: the statuses broadcast, in order
    sc         \* per /ws/status client: its socket and the messages sent to it

cacheVars == <<inode, isLog, sidecar, ret, winode, since>>
followVars == <<tailFile, ws, pc, search, tail, calls, sent, recv, unwatched>>
powerVars == <<processingPowerAction, pw>>
raceVars == <<disk, gt>>
moreVars == <<rq>>
dirVars == <<dir, listed>>
loopVars == <<bs>>
envVars == <<envFile, env0, ew>>
statusVars == <<up, flips, serviceStatusState, poll, casts, sc>>
lateVars == <<loopVars, envVars, statusVars>>
earlyVars == <<powerVars, raceVars, moreVars, dirVars>>
restVars == <<powerVars, raceVars, moreVars, dirVars, lateVars>>
vars == <<file, sres, cacheVars, followVars, restVars>>
exceptLoop == <<file, sres, cacheVars, followVars, earlyVars, envVars, statusVars>>
exceptEnv == <<file, sres, cacheVars, followVars, earlyVars, loopVars, statusVars>>
exceptStatus == <<file, sres, cacheVars, followVars, earlyVars, loopVars, envVars>>

\* ----------------------------------------------------------- file helpers
Max2(a, b) == IF a >= b THEN a ELSE b
Min2(a, b) == IF a <= b THEN a ELSE b
MinOf(S) == CHOOSE x \in S : \A y \in S : x <= y
MaxOf(S) == CHOOSE x \in S : \A y \in S : x >= y

RECURSIVE PrefixLen(_, _)
PrefixLen(F, n) == IF n = 0 THEN 0 ELSE PrefixLen(F, n - 1) + F[n].len

\* stats.size
Size(F) == PrefixLen(F, Len(F))

\* offset of the first byte of line i (1-based)
LineStart(F, i) == PrefixLen(F, i - 1)

\* offset of the newline that ends line i
NewlinePos(F, i) == PrefixLen(F, i) - 1

\* chunkString.indexOf('\n', from) over the bytes [from, to): absolute
\* position of the first newline, -1 when there is none
IndexOfNewline(F, from, to) ==
    LET S == {i \in 1..Len(F) : NewlinePos(F, i) >= from /\ NewlinePos(F, i) < to}
    IN IF S = {} THEN -1 ELSE NewlinePos(F, MinOf(S))

\* the timestamped lines whose token lies wholly inside the bytes [from, to)
\* and that start a piece of chunk.split('\n') (the chunk start or the byte
\* after a newline of the chunk)
TokensIn(F, from, to) ==
    {i \in 1..Len(F) : F[i].ts # Null /\ LineStart(F, i) >= from
                       /\ LineStart(F, i) + TsTokenLen <= to}

\* #extractTimeAtOffset: read 100 bytes at offset, match the anchored regex
ExtractTimeAtOffset(F, offset) ==
    LET bytesRead == Min2(EXTRACT_BUF, Max2(0, Size(F) - offset))
        S == {i \in TokensIn(F, offset, offset + bytesRead) : LineStart(F, i) = offset}
    IN IF bytesRead = 0 THEN Null
       ELSE IF S = {} THEN Null
       ELSE F[MinOf(S)].ts

\* a line may hold, at byte q of the line (q > 0), text that reads as a
\* timestamp qts: the absolute offset of that text, -1 when the line has none
QuoteAt(F, i) == IF "q" \in DOMAIN F[i] THEN LineStart(F, i) + F[i].q ELSE -1

\* the pieces of chunk.split('\n') for the chunk [from, to) that begin with
\* a timestamp token: their absolute offsets currentOffset + localOffset and
\* timestamps. A piece begins at a byte after a newline, which is a line
\* start, or at the chunk start, which is whatever byte the chunk begins on.
PieceMatches(F, from, to) ==
    {[off |-> LineStart(F, i), ts |-> F[i].ts] : i \in TokensIn(F, from, to)}
    \cup {[off |-> from, ts |-> F[i].qts] :
             i \in {j \in 1..Len(F) : QuoteAt(F, j) = from
                                       /\ from + TsTokenLen <= to}}

FirstMatch(S) == CHOOSE m \in S : \A n \in S : m.off <= n.off

\* #scanForwardForTime: the loop reads the 512-byte chunks that start at
\* startOffset, startOffset + 512, ... below fileSize, whatever the line
\* boundaries are, and returns the first piece of the first chunk that
\* begins with a timestamp token. A line start can only be seen in the
\* chunk that holds it, and text inside a line only when a chunk begins on
\* it, so the loop returns the lowest such offset at or after startOffset
\* whose chunk is visited and holds the whole token.
ChunkOf(startOffset, p) ==
    startOffset + SCAN_CHUNK * ((p - startOffset) \div SCAN_CHUNK)

ScanForwardForTime(F, startOffset, fileSize) ==
    LET BytesRead(currentOffset) ==
            Min2(SCAN_CHUNK, Max2(0, Size(F) - currentOffset))
        Seen(i) ==
            LET currentOffset == ChunkOf(startOffset, LineStart(F, i))
            IN /\ LineStart(F, i) >= startOffset
               /\ currentOffset < fileSize
               /\ i \in TokensIn(F, currentOffset,
                               currentOffset + BytesRead(currentOffset))
        SeenQuote(i) ==
            /\ QuoteAt(F, i) >= startOffset
            /\ QuoteAt(F, i) = ChunkOf(startOffset, QuoteAt(F, i))
            /\ QuoteAt(F, i) < fileSize
            /\ TsTokenLen <= BytesRead(QuoteAt(F, i))
        S == {[off |-> LineStart(F, i), ts |-> F[i].ts] :
                 i \in {j \in 1..Len(F) : Seen(j)}}
             \cup {[off |-> QuoteAt(F, i), ts |-> F[i].qts] :
                      i \in {j \in 1..Len(F) : SeenQuote(j)}}
    IN IF S = {} THEN [nextTs |-> Null, nextOffset |-> fileSize]
       ELSE [nextTs |-> FirstMatch(S).ts, nextOffset |-> FirstMatch(S).off]

\* one pivot of #findOffsetByTime: the line start after the first newline
\* at or after mid inside the window [mid-256, mid+256), and its timestamp;
\* a pivot without a timestamp is moved to the next timestamped line that
\* #scanForwardForTime finds
PivotAt(F, fileSize, lineStart0, ts0, scan) ==
    IF ts0 = Null /\ lineStart0 < fileSize /\ scan.nextTs # Null
    THEN [logTimeTs |-> scan.nextTs, lineStartOffset |-> scan.nextOffset]
    ELSE [logTimeTs |-> ts0, lineStartOffset |-> lineStart0]

\* the locator step of #findOffsetByTime: read the window of 512 bytes that
\* starts 256 bytes before mid, take the first newline at or after mid in
\* it, and answer the offset after that newline, or fileSize when the
\* window holds no such newline
LineLocator(F, fileSize, mid) ==
    LET searchStart == Max2(0, mid - CHUNK_SIZE)
        bytesRead == Min2(2 * CHUNK_SIZE, Max2(0, Size(F) - searchStart))
        newlineIndex == IndexOfNewline(F, mid, searchStart + bytesRead)
    IN [bytesRead |-> bytesRead, newlineIndex |-> newlineIndex,
        lineStartOffset |-> IF newlineIndex # -1 THEN newlineIndex + 1
                                                 ELSE fileSize]

Pivot(F, fileSize, mid) ==
    LET loc == LineLocator(F, fileSize, mid)
        lineStart0 == loc.lineStartOffset
    IN [bytesRead |-> loc.bytesRead,
        at |-> PivotAt(F, fileSize, lineStart0,
                       IF loc.newlineIndex # -1
                       THEN ExtractTimeAtOffset(F, lineStart0) ELSE Null,
                       ScanForwardForTime(F, lineStart0, fileSize))]

\* an iteration that leaves high where it is when the pivot has no timestamp
SearchStepStuck(targetTimeTs, low, high, resultOffset, mid, p) ==
    IF p.bytesRead = 0
    THEN [stop |-> TRUE, low |-> low, high |-> high, resultOffset |-> resultOffset]
    ELSE IF p.at.logTimeTs = Null
    THEN [stop |-> FALSE, low |-> low, high |-> high, resultOffset |-> resultOffset]
    ELSE IF p.at.logTimeTs >= targetTimeTs
    THEN [stop |-> FALSE, low |-> low, high |-> mid,
          resultOffset |-> p.at.lineStartOffset]
    ELSE [stop |-> FALSE,
          low |-> IF p.at.lineStartOffset <= mid THEN mid + 1
                                                 ELSE p.at.lineStartOffset,
          high |-> high, resultOffset |-> resultOffset]

\* one iteration of the while loop of #findOffsetByTime: the new low, high
\* and resultOffset, and whether the loop breaks
SearchStep(targetTimeTs, low, high, resultOffset, mid, p) ==
    IF p.bytesRead = 0
    THEN [stop |-> TRUE, low |-> low, high |-> high, resultOffset |-> resultOffset]
    ELSE IF p.at.logTimeTs = Null
    THEN [stop |-> FALSE, low |-> low, high |-> mid, resultOffset |-> resultOffset]
    ELSE IF p.at.logTimeTs >= targetTimeTs
    THEN [stop |-> FALSE, low |-> low, high |-> mid,
          resultOffset |-> p.at.lineStartOffset]
    ELSE [stop |-> FALSE,
          low |-> IF p.at.lineStartOffset <= mid THEN mid + 1
                                                 ELSE p.at.lineStartOffset,
          high |-> high, resultOffset |-> resultOffset]

\* the while loop of #findOffsetByTime
RECURSIVE FindOffsetLoop(_, _, _, _)
FindOffsetLoop(F, fileSize, targetTimeTs, st) ==
    IF st.stop \/ ~(st.low < st.high) THEN st.resultOffset
    ELSE FindOffsetLoop(F, fileSize, targetTimeTs,
                        SearchStep(targetTimeTs, st.low, st.high, st.resultOffset,
                                   (st.low + st.high) \div 2,
                                   Pivot(F, fileSize, (st.low + st.high) \div 2)))

\* #findOffsetByTime(fileHandle, fileSize, targetTimeTs, findStart, minOffset);
\* findStart is not read by the code
FindOffsetByTime(F, fileSize, targetTimeTs, minOffset) ==
    FindOffsetLoop(F, fileSize, targetTimeTs,
                   [stop |-> FALSE, low |-> minOffset, high |-> fileSize,
                    resultOffset |-> fileSize])

\* the lines of F that overlap the byte slice [startOffset, endOffset), as
\* line numbers in file order: content.split('\n') with the blank pieces
\* filtered out
RECURSIVE SliceLines(_, _, _, _)
SliceLines(F, startOffset, endOffset, i) ==
    IF i > Len(F) THEN <<>>
    ELSE IF LineStart(F, i) < endOffset /\ LineStart(F, i) + F[i].len > startOffset
    THEN <<i>> \o SliceLines(F, startOffset, endOffset, i + 1)
    ELSE SliceLines(F, startOffset, endOffset, i + 1)

\* Array.prototype.slice(from, to) on a sequence
JsSlice(s, from, to) ==
    SubSeq(s, Min2(from, Len(s)) + 1, Min2(to, Len(s)))

\* String.prototype.includes on strings written as sequences of characters
Includes(line, s) ==
    \E i \in 0..(Len(line) - Len(s)) : SubSeq(line, i + 1, i + Len(s)) = s

\* a filter that keeps the lines without the search string
FilterExcluding(F, allLines, srch) ==
    SelectSeq(allLines, LAMBDA i : ~Includes(F[i].txt, srch))

\* allLines.filter(line => line.includes(srch)); txt is the text of a line
FilterIncludes(F, allLines, srch) ==
    SelectSeq(allLines, LAMBDA i : Includes(F[i].txt, srch))

\* a page that always starts at the first line
PageFromStart(allLines, offset, limit) == JsSlice(allLines, 0, limit)

\* allLines.slice(offset, offset + limit)
Paginate(allLines, offset, limit) == JsSlice(allLines, offset, offset + limit)

\* a buffer that never exceeds SoftCap bytes
AllocCapped(readLength) == Min2(readLength, SoftCap)

\* Buffer.alloc(readLength) and the read of readLength bytes into it: the
\* number of bytes allocated and read
AllocLength(readLength) == readLength

\* searchLogLinesByTimeRange from the stat on: fileSize is stats.size as the
\* call read it, F the bytes its later reads find; startTs / endTs are Null
\* when the bound is absent, srch is <<>> when no search string is given
SearchLogLinesAt(F, fileSize, startTs, endTs, limit, offset, srch) ==
    LET startOffset == IF startTs # Null
                       THEN FindOffsetByTime(F, fileSize, startTs, 0) ELSE 0
        endOffset == IF endTs # Null
                     THEN FindOffsetByTime(F, fileSize, endTs + 1, startOffset)
                     ELSE fileSize
        readLength == endOffset - startOffset
        inRange == SliceLines(F, startOffset, endOffset, 1)
        allLines == IF srch # <<>> THEN FilterIncludes(F, inRange, srch)
                    ELSE inRange
    IN IF readLength <= 0
       THEN [lines |-> <<>>, total |-> 0, read |-> 0,
             startOffset |-> startOffset, endOffset |-> endOffset]
       ELSE [lines |-> Paginate(allLines, offset, limit),
             total |-> Len(allLines), read |-> AllocLength(readLength),
             startOffset |-> startOffset, endOffset |-> endOffset]

\* searchLogLinesByTimeRange on an existing file of an existing service
\* that nothing writes to while the call runs
SearchLogLinesByTimeRange(F, startTs, endTs, limit, offset, srch) ==
    SearchLogLinesAt(F, Size(F), startTs, endTs, limit, offset, srch)

\* fileContent.split('\n') on a file of newline-terminated lines: one piece
\* per line, written as the line's number, and the empty piece after the
\* last newline, written as 0
SplitLines(F) == [i \in 1..(Len(F) + 1) |-> IF i <= Len(F) THEN i ELSE 0]

\* getLogLines on an existing file of an existing service: the pieces
\* returned
GetLogLines(F, startLine0, numLines) ==
    LET lines == SplitLines(F)
        startLine == IF startLine0 < 0
                     THEN Min2(Max2(0, Len(lines) + startLine0), Len(lines))
                     ELSE startLine0
        endLine == Min2(startLine + numLines, Len(lines))
    IN IF numLines <= 0 THEN <<>>
       ELSE JsSlice(lines, startLine, endLine)

\* ------------------------------------------------------- live tail (code)
\* the WebSocket clients of /ws/logs/:name that follow the log file
Clients == {"c1", "c2"}

\* the handler without the !search shortcut and with the test inverted
LineHandlerInverted(srch, line) ==
    srch # <<>> /\ ~Includes(line, srch)

\* the "line" handler of monitorServiceLogs: !search || line.includes(search)
LineHandlerDelivers(srch, line) ==
    srch = <<>> \/ Includes(line, srch)

\* a Tail instance that is created but never started
NewTailIdle(fileLen) ==
    [exists |-> TRUE, watching |-> FALSE, start |-> fileLen, pos |-> fileLen]

\* new tail(logFilePath, {fromBeginning: false, follow: true}) and watch():
\* the instance watches the file from its current end
NewTail(fileLen) ==
    [exists |-> TRUE, watching |-> TRUE, start |-> fileLen, pos |-> fileLen]

NoTail == [exists |-> FALSE, watching |-> FALSE, start |-> 0, pos |-> 0]

\* a stop function that leaves the watcher running
UnwatchNothing(t) == t

\* a stop function that switches the watcher: off when on, on when off
UnwatchToggle(t) == [t EXCEPT !.watching = ~@]

\* the function monitorServiceLogs returns: tailInstance.unwatch()
Unwatch(t) == [t EXCEPT !.watching = FALSE]

\* a stop function that stops the watchers of all subscribers
UnwatchAll(tails, c) == [d \in DOMAIN tails |-> Unwatch(tails[d])]

\* the stop function of subscriber c closes over the tailInstance its own
\* monitorServiceLogs call created
UnwatchOwn(tails, c) == [tails EXCEPT ![c] = Unwatch(tails[c])]

\* the callback without the readyState test
WsSendAlways(readyState, out, logLine) == Append(out, logLine)

\* the callback of the upgrade handler:
\* if (ws.readyState === WebSocket.OPEN) ws.send(logLine)
WsSend(readyState, out, logLine) ==
    IF readyState = "open" THEN Append(out, logLine) ELSE out

NoFollower ==
    /\ tailFile = <<>>
    /\ ws = [c \in Clients |-> "none"]
    /\ pc = [c \in Clients |-> "idle"]
    /\ search = [c \in Clients |-> <<>>]
    /\ tail = [c \in Clients |-> NoTail]
    /\ calls = [c \in Clients |-> <<>>]
    /\ sent = [c \in Clients |-> <<>>]
    /\ recv = [c \in Clients |-> 0]
    /\ unwatched = [c \in Clients |-> 0]

\* ---------------------------------------------------- power action (code)
\* Object.values(PowerAction)
PowerAction == {"START", "STOP", "RESTART"}

\* the HTTP requests of POST /api/services/:name/power that may be open at
\* the same time, and the action.toUpperCase() values they carry
Requests == {"r1", "r2", "r3"}
ActionTypes == PowerAction \cup {"DOWN", "REBOOT"}

\* Object.values(PowerAction).includes(actionType)
IsPowerAction(actionType) == actionType \in PowerAction

\* a guard test that never finds an action in flight
GuardHasNothing(inFlight, actionType) == actionType \in {}

\* a guard test that finds an action in flight whatever its kind
GuardHasAny(inFlight, actionType) == inFlight # {}

\* processingPowerAction.has(actionType)
GuardHas(inFlight, actionType) == actionType \in inFlight

\* processingPowerAction.add(actionType)
GuardAdd(inFlight, actionType) == inFlight \cup {actionType}

\* an exit path that keeps the action in the set
GuardKeep(inFlight, actionType) == inFlight

\* processingPowerAction.delete(actionType)
GuardDelete(inFlight, actionType) == inFlight \ {actionType}

NoPowerCall ==
    [pc |-> "idle", actionType |-> "", success |-> FALSE, message |-> "",
     ran |-> FALSE, before |-> {}, after |-> {}, serviceName |-> "",
     inFlight |-> {}]

NoPower ==
    /\ processingPowerAction = {}
    /\ pw = [r \in Requests |-> NoPowerCall]

\* ----------------------------------------------- sidecar file I/O (code)
\* no <file>.timecache on disk
NoSidecar == [exists |-> FALSE]

\* the getLogFileTimeRange calls that may run at the same time
Calls == {"g1", "g2"}

\* decimal digits of a number, as JSON.stringify writes it
RECURSIVE Digits(_)
Digits(n) == IF n < 10 THEN 1 ELSE 1 + Digits(n \div 10)

\* characters of a timestamp in JSON: 13 digits of milliseconds, or null
TS_DIGITS == 13
NULL_CHARS == 4
JSON_FRAME == 49
JsonTs(t) == IF t = Null THEN NULL_CHARS ELSE TS_DIGITS

\* bytes the header signature covers; its hex string has two characters
\* for each
RECURSIVE SigBytes(_)
SigBytes(sig) == IF sig = <<>> THEN 0 ELSE Head(sig).n + SigBytes(Tail(sig))

\* length of JSON.stringify(cacheToSave):
\* {"start":..,"end":..,"size":..,"inode":..,"headerSig":".."}
JsonLen(e) ==
    JSON_FRAME + JsonTs(e.start) + JsonTs(e.end) + Digits(e.size)
        + Digits(e.inode) + 2 * SigBytes(e.headerSig)

NoDisk == [exists |-> FALSE, front |-> NoSidecar, size |-> 0]

\* fs.existsSync(cacheFilePath), readFile and JSON.parse: what the call
\* makes of the bytes it finds
Observe(d) ==
    IF ~d.exists THEN "absent"
    ELSE IF d.size = 0 THEN "empty"
    ELSE IF ~d.front.exists THEN "empty"
    ELSE IF d.size # JsonLen(d.front) THEN "torn"
    ELSE "complete"

\* the cache object after the try block of lines 666-673: the parsed entry,
\* or the default when there is no sidecar or JSON.parse throws
ReadCache(d) == IF Observe(d) = "complete" THEN d.front ELSE NoSidecar

\* writeFile opens the sidecar with flag 'w': the file is created or cut to
\* length 0
OpenTruncating(d) == [exists |-> TRUE, front |-> NoSidecar, size |-> 0]

\* writeFile writes the whole buffer at position 0 of what the file holds
\* by then
WriteBuffer(d, e) ==
    [exists |-> TRUE, front |-> e, size |-> Max2(d.size, JsonLen(e))]

NoGet == [pc |-> "idle", observed |-> "none", cache |-> NoSidecar,
          toSave |-> NoSidecar]

NoRace ==
    /\ disk = NoDisk
    /\ gt = [g \in Calls |-> NoGet]

\* ------------------------------------------ log requests: outcomes (code)
\* the requests of the log endpoints that may be open at the same time
LogRequests == {"q1", "q2"}

\* what a call can come back with
Returned(body, cause) == [thrown |-> FALSE, body |-> body, cause |-> cause]
Thrown(cause) == [thrown |-> TRUE, body |-> "none", cause |-> cause]

\* getLogLines: fileArg is "missing" when the query has no file parameter,
\* "absent" when no such file exists, "present" otherwise; readOk tells
\* whether fs.promises.readFile succeeds
GetLogLinesOutcome(serviceExists, fileArg, numLines, readOk) ==
    IF ~serviceExists THEN Returned("empty", "unknown service")
    ELSE IF fileArg = "missing" THEN Thrown("missing file")
    ELSE IF fileArg = "absent" THEN Returned("empty", "no such file")
    ELSE IF ~readOk THEN Returned("empty", "io")
    ELSE IF numLines <= 0 THEN Returned("empty", "bad num")
    ELSE Returned("lines", "none")

\* searchLogLinesByTimeRange up to fs.promises.open: the outcome when the
\* call ends there, "open" when it holds a file handle and goes on
SearchBeginOutcome(serviceExists, fileArg, timeOk, openOk) ==
    IF ~serviceExists THEN Returned("empty", "unknown service")
    ELSE IF fileArg = "missing" THEN Thrown("missing file")
    ELSE IF fileArg = "absent" THEN Returned("empty", "no such file")
    ELSE IF ~timeOk THEN Returned("empty", "bad time")
    ELSE IF ~openOk THEN Returned("empty", "io")
    ELSE Returned("open", "none")

\* searchLogLinesByTimeRange after the open: stat, the two searches and the
\* slice read
SearchEndOutcome(ioOk, emptyRange) ==
    IF ~ioOk THEN Returned("empty", "io")
    ELSE IF emptyRange THEN Returned("empty", "none")
    ELSE Returned("lines", "none")

\* getLogFileTimeRange up to fs.promises.open
RangeBeginOutcome(serviceExists, fileExists, staticHit, openOk) ==
    IF ~serviceExists THEN Returned("null range", "unknown service")
    ELSE IF ~fileExists THEN Returned("null range", "no such file")
    ELSE IF staticHit THEN Returned("range", "none")
    ELSE IF ~openOk THEN Returned("cached range", "io")
    ELSE Returned("open", "none")

\* getLogFileTimeRange after the open: the scans and the sidecar write
RangeEndOutcome(scanOk, nothingNeeded, writeOk) ==
    IF ~scanOk THEN Returned("cached range", "io")
    ELSE IF nothingNeeded THEN Returned("range", "none")
    ELSE IF ~writeOk THEN Returned("range", "io")
    ELSE Returned("range", "none")

\* a finally block that leaves the handle open
FinallyKeep(handle) == handle

\* finally { if (fileHandle) await fileHandle.close(); }
FinallyClose(handle) == 0

\* the route handlers: res.json(result), or status 500 with the message of
\* what the call threw
HttpStatus(outcome) == IF outcome.thrown THEN 500 ELSE 200

NoRequest ==
    [fn |-> "none", pc |-> "idle", args |-> <<>>, handle |-> 0,
     opened |-> FALSE, thrown |-> FALSE, body |-> "none", cause |-> "none",
     status |-> 0]

NoMore == rq = [q \in LogRequests |-> NoRequest]

\* ------------------------------------------------- logs directory (code)
\* file names are sequences of name parts; the extension of the sidecars
TIMECACHE == ".timecache"

\* file.endsWith(suffix) for a suffix that is one name part
EndsWith(name, suffix) == Len(name) > 0 /\ name[Len(name)] = suffix

\* `${logFileName}.timecache`
CacheFileName(logFileName) == logFileName \o <<TIMECACHE>>

\* a filter that keeps every regular file
ListedAnyFile(e) == e.kind = "file"

\* the filter of getServiceLogs: a regular file that is no sidecar
ListedEntry(e) == e.kind = "file" /\ ~EndsWith(e.name, TIMECACHE)

\* getServiceLogs: the names answered for a logs directory with these
\* entries
GetServiceLogs(serviceExists, entries) ==
    IF ~serviceExists THEN {}
    ELSE {e.name : e \in {x \in entries : ListedEntry(x)}}

NoListing == [called |-> FALSE]

NoDir == dir = {} /\ listed = NoListing

\* ---------------------------------------------- binary search by steps
NoSearch ==
    [pc |-> "idle", target |-> 0, fileSize |-> 0, minOffset |-> 0, low |-> 0,
     high |-> 0, resultOffset |-> 0, mid |-> 0, lineStart |-> 0,
     currentOffset |-> 0, iters |-> 0, chunks |-> 0, findStart |-> TRUE]

\* --------------------------------------------------- .env file (code)
\* the keys of the .env file and the writeServiceEnvConfig calls that may
\* run at the same time; call c sets its keys to the value EnvValue(c)
EnvKeys == {"PORT", "TAG"}
EnvCalls == {"e1", "e2"}
Absent == 0
OldValue == 1
EnvValue(c) == IF c = "e1" THEN 2 ELSE 3

\* { ...existingEnv, ...envData }: envData[k] is Absent for the keys the
\* call does not name
MergeEnv(existingEnv, envData) ==
    [k \in EnvKeys |-> IF envData[k] # Absent THEN envData[k]
                       ELSE existingEnv[k]]

NoEnvCall ==
    [pc |-> "idle", envData |-> [k \in EnvKeys |-> Absent],
     existingEnv |-> [k \in EnvKeys |-> Absent], success |-> FALSE]

NoEnv ==
    /\ envFile = [k \in EnvKeys |-> Absent]
    /\ env0 = [k \in EnvKeys |-> Absent]
    /\ ew = [c \in EnvCalls |-> NoEnvCall]

\* ------------------------------------------------- status broadcast (code)
\* the directories listServices answers, in readdir order, the polling
\* rounds that may be under way at the same time (the one of
\* initializeStatusesAndStartPolling and two started by the timer), and
\* the clients of /ws/status
ServiceList == <<"app", "db">>
ServiceNames == {ServiceList[i] : i \in 1..Len(ServiceList)}
TimerRounds == {"t1", "t2"}
Rounds == {"init"} \cup TimerRounds
StatusClients == {"u1"}

\* isUp ? 'Up' : 'Down'
StatusOf(isUp) == IF isUp THEN "Up" ELSE "Down"

\* a test that lets every polled status through
StatusAlways(recorded, newStatus) == TRUE

\* serviceStatusState[service] !== newStatus
StatusChanged(recorded, newStatus) == recorded # newStatus

\* no message on connection
HelloNothing(state) == <<>>

\* Object.entries(serviceStatusState).forEach(... ws.send ...): one message
\* per recorded service
HelloMessages(state) ==
    LET recorded == {i \in 1..Len(ServiceList) : state[ServiceList[i]] # "none"}
        Nth(n) == CHOOSE i \in recorded :
                      Cardinality({j \in recorded : j <= i}) = n
    IN [n \in 1..Cardinality(recorded) |->
           <<ServiceList[Nth(n)], state[ServiceList[Nth(n)]]>>]

\* statusWss.clients.forEach(client => { if (client.readyState ===
\* WebSocket.OPEN) client.send(payload) })
BroadcastTo(clients, payload) ==
    [u \in DOMAIN clients |->
        IF clients[u].readyState = "open"
        THEN [clients[u] EXCEPT !.inbox = Append(@, payload)]
        ELSE clients[u]]

NoRound == [pc |-> "idle", i |-> 0, isUp |-> FALSE]

NoStatusClient ==
    [readyState |-> "none", saw |-> [n \in ServiceNames |-> "none"],
     hello |-> <<>>, inbox |-> <<>>]

NoStatus ==
    /\ up = [n \in ServiceNames |-> FALSE]
    /\ flips = 0
    /\ serviceStatusState = [n \in ServiceNames |-> "none"]
    /\ poll = [p \in Rounds |-> NoRound]
    /\ casts = [n \in ServiceNames |-> <<>>]
    /\ sc = [u \in StatusClients |-> NoStatusClient]

NoLate == bs = NoSearch /\ NoEnv /\ NoStatus

NoRest == NoPower /\ NoRace /\ NoMore /\ NoDir /\ NoLate

\* ------------------------------------------------------------ search model
LineSet == {l \in [ts : 0..MaxTs, len : LineLens] : TRUE}

\* timestamps never decrease along the timestamped lines of a file
NonDecreasing(F) ==
    \A i, j \in 1..Len(F) :
        (i < j /\ F[i].ts # Null /\ F[j].ts # Null) => F[i].ts <= F[j].ts

RECURSIVE SeqsUpTo(_, _)
SeqsUpTo(S, n) ==
    IF n = 0 THEN {<<>>}
    ELSE LET R == SeqsUpTo(S, n - 1)
         IN R \cup {Append(r, x) : r \in {q \in R : Len(q) = n - 1}, x \in S}

Files == {F \in SeqsUpTo(LineSet, MaxLines) : NonDecreasing(F)}

NoCall == [op |-> "none", a |-> 0, b |-> 0, off |-> 0, lines |-> <<>>, total |-> 0]

NoRet == [called |-> FALSE]

InitSearch ==
    /\ file \in Files
    /\ sres = NoCall
    /\ inode = 1
    /\ isLog = TRUE
    /\ sidecar = NoSidecar
    /\ ret = NoRet
    /\ winode = 0
    /\ since = "none"
    /\ NoFollower
    /\ NoRest

\* a caller runs #findOffsetByTime(target, lowerBound) with minOffset 0
FindCall(t) ==
    /\ sres.op = "none"
    /\ sres' = [op |-> "find", a |-> t, b |-> 0,
                off |-> FindOffsetByTime(file, Size(file), t, 0),
                lines |-> <<>>, total |-> 0]
    /\ UNCHANGED <<file, cacheVars, followVars, restVars>>

\* a caller runs searchLogLinesByTimeRange(from, to) with the default limit,
\* offset 0 and no search string
SearchCall(from, to) ==
    /\ sres.op = "none"
    /\ LET r == SearchLogLinesByTimeRange(file, from, to, DEFAULT_LIMIT, 0, <<>>)
       IN sres' = [op |-> "search", a |-> from, b |-> to, off |-> 0,
                   lines |-> r.lines, total |-> r.total, read |-> r.read,
                   startOffset |-> r.startOffset, endOffset |-> r.endOffset]
    /\ UNCHANGED <<file, cacheVars, followVars, restVars>>

NextSearch ==
    \/ \E t \in 1..(MaxTs + 1) : FindCall(t)
    \/ \E from \in 0..(MaxTs + 1), to \in 0..(MaxTs + 1) : SearchCall(from, to)

SpecSearch == InitSearch /\ [][NextSearch]_vars

\* ---------------------------------------------------------------- C1, C2
AllTimestamped(F) == \A i \in 1..Len(F) : F[i].ts # Null

StrictlyIncreasing(F) ==
    \A i, j \in 1..Len(F) : i < j => F[i].ts < F[j].ts

\* offset of the first line whose timestamp is >= t, the file size if none
LowerBoundOffset(F, t) ==
    LET S == {i \in 1..Len(F) : F[i].ts # Null /\ F[i].ts >= t}
    IN IF S = {} THEN Size(F) ELSE LineStart(F, MinOf(S))

\* C1: on a file whose lines all carry strictly increasing timestamps,
\* findOffsetByTime(t, lowerBound) with minOffset 0 returns the offset of the
\* first line whose timestamp is >= t, or the file size if there is none.
C1_LowerBound ==
    (sres.op = "find" /\ AllTimestamped(file) /\ StrictlyIncreasing(file))
        => sres.off = LowerBoundOffset(file, sres.a)

\* timestamp a line counts with: its own, or that of the nearest preceding
\* timestamped line
EffectiveTs(F, i) ==
    LET S == {j \in 1..i : F[j].ts # Null}
    IN IF S = {} THEN Null ELSE F[MaxOf(S)].ts

RECURSIVE LinesInRange(_, _, _, _)
LinesInRange(F, from, to, i) ==
    IF i > Len(F) THEN <<>>
    ELSE IF EffectiveTs(F, i) # Null /\ from <= EffectiveTs(F, i) /\ EffectiveTs(F, i) <= to
    THEN <<i>> \o LinesInRange(F, from, to, i + 1)
    ELSE LinesInRange(F, from, to, i + 1)

\* C2: readTimeRange(from, to) with no limit, offset 0 and empty search
\* returns exactly the lines whose timestamp lies in [from, to], in file
\* order, and an empty result with total 0 when there is none.
C2_ExactRange ==
    (sres.op = "search" /\ sres.a # Null /\ sres.b # Null)
        => /\ sres.lines = LinesInRange(file, sres.a, sres.b, 1)
           /\ sres.total = Len(sres.lines)

\* ------------------------------------------------- time-range cache (code)
\* #findFirstTimestamp: forward scan of the first 50 KiB
FindFirstTimestamp(F, fileSize) ==
    ScanForwardForTime(F, 0, Min2(fileSize, SCAN_LIMIT)).nextTs

\* #findLastTimestamp: 10 KiB chunks from the end, at most 100 KiB, the last
\* piece of a chunk that begins with a timestamp token
\* the backward scan with the pieces of a chunk walked first to last
FindLastLoopForward(F, position, minPos) ==
    IF ~(position > minPos) THEN Null
    ELSE LET S == TokensIn(F, minPos, position)
         IN IF S # {} THEN F[MinOf(S)].ts ELSE Null

RECURSIVE FindLastLoop(_, _, _)
FindLastLoop(F, position, minPos) ==
    IF ~(position > minPos) THEN Null
    ELSE LET readSize == Min2(BACK_CHUNK, position - minPos)
             startOffset == position - readSize
             S == TokensIn(F, startOffset, position)
         IN IF S # {} THEN F[MaxOf(S)].ts
            ELSE FindLastLoop(F, position - readSize, minPos)

FindLastTimestamp(F, fileSize) ==
    FindLastLoop(F, fileSize, Max2(0, fileSize - MAX_SCAN_BACK))

\* #getFileHeaderSignature: the first 64 bytes of the file, as the pieces of
\* the lines they cover; a piece too short to hold the timestamp token does
\* not tell the instant. The empty sequence is the empty string.
RECURSIVE HeaderSigLoop(_, _, _)
HeaderSigLoop(F, i, remaining) ==
    IF i > Len(F) \/ remaining = 0 THEN <<>>
    ELSE LET n == Min2(F[i].len, remaining)
         IN <<[ts |-> IF n >= TsTokenLen THEN F[i].ts ELSE Null, n |-> n]>>
            \o HeaderSigLoop(F, i + 1, remaining - n)

GetFileHeaderSignature(F) == HeaderSigLoop(F, 1, HEADER_SIG_LEN)

\* the cache object getLogFileTimeRange starts from when no sidecar exists
DefaultCache ==
    [exists |-> TRUE, start |-> Null, end |-> Null, size |-> 0, inode |-> 0,
     headerSig |-> <<>>]

\* the three rotation checks of getLogFileTimeRange
FileRotated(cache, fileSize, ino, currentHeaderSig) ==
    \/ cache.inode # 0 /\ cache.inode # ino
    \/ cache.size # 0 /\ fileSize < cache.size
    \/ cache.headerSig # <<>> /\ currentHeaderSig # cache.headerSig

\* a test that never takes the early return
StaticCacheMiss(logFile, cache) == logFile /\ ~logFile

\* !isLogFile && cache.start != null && cache.end != null
StaticCacheHit(logFile, cache) ==
    ~logFile /\ cache.start # Null /\ cache.end # Null

\* an entry that persists the end of an active file as well
EndToSaveComputed(logFile, end) == end

\* end: isLogFile ? null : cache.end
EndToSave(logFile, end) == IF logFile THEN Null ELSE end

\* getLogFileTimeRange on an existing file of an existing service: the value
\* returned, whether the log file was opened, and the sidecar it leaves
GetLogFileTimeRange(onDisk, F, ino, logFile) ==
    LET cache0 == IF onDisk.exists THEN onDisk ELSE DefaultCache
        fileSize == Size(F)
        currentHeaderSig == GetFileHeaderSignature(F)
        fileRotated == logFile /\ FileRotated(cache0, fileSize, ino, currentHeaderSig)
        refresh == logFile /\ (fileRotated \/ fileSize # cache0.size)
        needsStart == cache0.start = Null \/ fileRotated
        needsEnd == cache0.end = Null \/ refresh
        startTs == FindFirstTimestamp(F, fileSize)
        endTs == FindLastTimestamp(F, fileSize)
        start1 == IF needsStart THEN startTs ELSE cache0.start
        end1 == IF needsEnd /\ endTs # Null THEN endTs ELSE cache0.end
        toSave == [exists |-> TRUE,
                   start |-> start1,
                   end |-> EndToSave(logFile, end1),
                   size |-> IF refresh THEN fileSize ELSE cache0.size,
                   inode |-> IF refresh THEN ino ELSE cache0.inode,
                   headerSig |-> IF refresh THEN currentHeaderSig ELSE cache0.headerSig]
    IN IF StaticCacheHit(logFile, cache0)
       THEN [start |-> cache0.start, end |-> cache0.end, opened |-> FALSE,
             wrote |-> FALSE, sidecar |-> onDisk]
       ELSE IF ~needsStart /\ ~needsEnd
       THEN [start |-> cache0.start, end |-> cache0.end, opened |-> TRUE,
             wrote |-> FALSE, sidecar |-> onDisk]
       ELSE [start |-> start1, end |-> end1, opened |-> TRUE,
             wrote |-> TRUE, sidecar |-> toSave]

\* ------------------------------------------------ time-range cache (model)
CacheLineSet ==
    {[ts |-> Null, len |-> BANNER_LINE], [ts |-> Null, len |-> HUGE_LINE]}
        \cup {[ts |-> t, len |-> n] : t \in 1..MaxCacheTs,
                                            n \in {SHORT_LINE, BANNER_LINE}}

CacheFiles == {F \in SeqsUpTo(CacheLineSet, MaxCacheLines) : NonDecreasing(F)}

InitCache ==
    /\ file \in CacheFiles
    /\ sres = NoCall
    /\ inode = 1
    /\ isLog \in BOOLEAN
    /\ sidecar = NoSidecar
    /\ ret = NoRet
    /\ winode = 0
    /\ since = "none"
    /\ NoFollower
    /\ NoRest

\* a client asks for the time range of the file
GetTimeRange ==
    /\ LET r == GetLogFileTimeRange(sidecar, file, inode, isLog)
       IN /\ ret' = [called |-> TRUE, start |-> r.start, end |-> r.end,
                     opened |-> r.opened, wrote |-> r.wrote,
                     pre |-> sidecar, since |-> since, winode |-> winode,
                     file |-> file, inode |-> inode]
          /\ winode' = IF r.wrote THEN inode ELSE winode
          /\ sidecar' = r.sidecar
          /\ since' = IF r.wrote THEN "same" ELSE since
    /\ UNCHANGED <<file, sres, inode, isLog, followVars, restVars>>

\* the service appends a line to its active log file
AppendLine(l) ==
    /\ isLog
    /\ Len(file) < MaxCacheLines
    /\ NonDecreasing(Append(file, l))
    /\ file' = Append(file, l)
    /\ since' = IF since = "same" THEN "grown" ELSE since
    /\ UNCHANGED <<sres, inode, isLog, sidecar, ret, winode, followVars, restVars>>

\* log rotation by rename and create: a new, empty file under the same name
RotateFile ==
    /\ isLog
    /\ inode < MaxInode
    /\ inode' = inode + 1
    /\ file' = <<>>
    /\ since' = "replaced"
    /\ UNCHANGED <<sres, isLog, sidecar, ret, winode, followVars, restVars>>

\* log rotation by truncation in place: same inode, no content
TruncateFile ==
    /\ isLog
    /\ file # <<>>
    /\ file' = <<>>
    /\ since' = "replaced"
    /\ UNCHANGED <<sres, inode, isLog, sidecar, ret, winode, followVars, restVars>>

NextCache ==
    \/ GetTimeRange
    \/ \E l \in CacheLineSet : AppendLine(l)
    \/ RotateFile
    \/ TruncateFile

SpecCache == InitCache /\ [][NextCache]_vars

\* ---------------------------------------------------------------- C3, C4
\* the sidecar read by the last call no longer describes the file the call saw
Invalidated(pre, F, ino) ==
    \/ ret.winode # ino
    \/ Size(F) < pre.size
    \/ GetFileHeaderSignature(F) # pre.headerSig

\* C3: for an active file with an existing sidecar, after an inode change, a
\* size decrease or a change of the first 64 bytes, the next getTimeRange
\* returns start and end scanned from the current content and rewrites the
\* sidecar with the current size, inode and headerSig.
C3_Invalidation ==
    (ret.called /\ isLog /\ ret.pre.exists /\ Invalidated(ret.pre, ret.file, ret.inode))
        => /\ ret.start = FindFirstTimestamp(ret.file, Size(ret.file))
           /\ ret.end = FindLastTimestamp(ret.file, Size(ret.file))
           /\ ret.wrote
           /\ sidecar.size = Size(ret.file)
           /\ sidecar.inode = ret.inode
           /\ sidecar.headerSig = GetFileHeaderSignature(ret.file)

\* the sidecar read by the last call was written for this very file, which
\* has only been appended to since
GrownOnly ==
    /\ ret.called /\ isLog /\ ret.pre.exists
    /\ ret.since = "grown"
    /\ ret.winode = ret.inode
    /\ ret.pre.headerSig = GetFileHeaderSignature(ret.file)

\* timestamp of the last timestamped line of F, Null when it has none
LastTs(F) ==
    LET S == {i \in 1..Len(F) : F[i].ts # Null}
    IN IF S = {} THEN Null ELSE F[MaxOf(S)].ts

\* C4 as stated: for an active file of unchanged identity that has only
\* grown, getTimeRange returns the start it returned before, the timestamp
\* of the last timestamped line now in the file as end, and leaves a sidecar
\* whose size is the new file size.
C4_KeepStartNewEnd ==
    GrownOnly => /\ ret.start = ret.pre.start
                 /\ ret.end = LastTs(ret.file)
                 /\ sidecar.size = Size(ret.file)

\* C4 amended: the cached start is kept when it is not null and is scanned
\* again when it is null; end is what the backward scan of the last 100 KiB
\* finds, which is the last timestamped line of a file of at most one
\* 10 KiB chunk; the sidecar's size is the new file size.
C4_KeepKnownStartRescanEnd ==
    GrownOnly => /\ ret.pre.start # Null => ret.start = ret.pre.start
                 /\ ret.pre.start = Null
                        => ret.start = FindFirstTimestamp(ret.file, Size(ret.file))
                 /\ ret.end = FindLastTimestamp(ret.file, Size(ret.file))
                 /\ Size(ret.file) <= BACK_CHUNK => ret.end = LastTs(ret.file)
                 /\ ret.wrote
                 /\ sidecar.size = Size(ret.file)

\* a grown file whose cached start was kept while end moved to a later line
C4_Witness ==
    /\ GrownOnly
    /\ ret.pre.start # Null
    /\ ret.start = ret.pre.start
    /\ ret.start = FindFirstTimestamp(ret.file, Size(ret.file))
    /\ ret.end # Null /\ ret.end > ret.start
    /\ ret.end = LastTs(ret.file)
    /\ sidecar.size > ret.pre.size

\* ------------------------------------------------------ live tail (model)
\* the lines the service writes and the search strings clients ask for
LogLines == {<<"x", "e">>, <<"o">>}
Searches == {<<>>, <<"e">>}

InitFollow ==
    /\ file = <<>>
    /\ sres = NoCall
    /\ inode = 1
    /\ isLog = TRUE
    /\ sidecar = NoSidecar
    /\ ret = NoRet
    /\ winode = 0
    /\ since = "none"
    /\ NoFollower
    /\ NoRest

\* a client opens /ws/logs/<service>?file=<file>&search=s: the upgrade
\* handler calls monitorServiceLogs, which awaits #checkServiceExists
Connect(c, s) ==
    /\ ws[c] = "none"
    /\ ws' = [ws EXCEPT ![c] = "open"]
    /\ pc' = [pc EXCEPT ![c] = "awaiting"]
    /\ search' = [search EXCEPT ![c] = s]
    /\ UNCHANGED <<tailFile, tail, calls, sent, recv, unwatched>>
    /\ UNCHANGED <<file, sres, cacheVars, restVars>>

\* monitorServiceLogs resumes: it creates the Tail instance, starts the
\* watch and returns unwatch; the upgrade handler then registers its close
\* and error handlers
MonitorStart(c) ==
    /\ pc[c] = "awaiting"
    /\ tail' = [tail EXCEPT ![c] = NewTail(Len(tailFile))]
    /\ pc' = [pc EXCEPT ![c] = "serving"]
    /\ UNCHANGED <<tailFile, ws, search, calls, sent, recv, unwatched>>
    /\ UNCHANGED <<file, sres, cacheVars, restVars>>

\* the socket raises "error" (handled once the handlers are registered):
\* the error handler calls unwatch(); "close" follows
SocketError(c) ==
    /\ ws[c] = "open"
    /\ pc[c] = "serving"
    /\ ws' = [ws EXCEPT ![c] = "closing"]
    /\ tail' = UnwatchOwn(tail, c)
    /\ unwatched' = [unwatched EXCEPT ![c] = @ + 1]
    /\ UNCHANGED <<tailFile, pc, search, calls, sent, recv>>
    /\ UNCHANGED <<file, sres, cacheVars, restVars>>

\* the socket raises "close": the close handler, if it is registered by
\* then, calls unwatch()
SocketClose(c) ==
    /\ ws[c] \in {"open", "closing"}
    /\ ws' = [ws EXCEPT ![c] = "closed"]
    /\ IF pc[c] = "serving"
       THEN /\ tail' = UnwatchOwn(tail, c)
            /\ unwatched' = [unwatched EXCEPT ![c] = @ + 1]
       ELSE UNCHANGED <<tail, unwatched>>
    /\ UNCHANGED <<tailFile, pc, search, calls, sent, recv>>
    /\ UNCHANGED <<file, sres, cacheVars, restVars>>

\* the service appends a line to the followed file
WriteLogLine(l) ==
    /\ Len(tailFile) < MaxAppend
    /\ tailFile' = Append(tailFile, l)
    /\ UNCHANGED <<ws, pc, search, tail, calls, sent, recv, unwatched>>
    /\ UNCHANGED <<file, sres, cacheVars, restVars>>

\* a watching Tail instance emits "line" for the next line of the file: the
\* handler filters it and calls onLineCallback, which sends it on the socket
TailLine(c) ==
    /\ tail[c].watching
    /\ tail[c].pos < Len(tailFile)
    /\ tail' = [tail EXCEPT ![c].pos = @ + 1]
    /\ LET line == tailFile[tail[c].pos + 1]
       IN IF LineHandlerDelivers(search[c], line)
          THEN /\ calls' = [calls EXCEPT ![c] = Append(@, line)]
               /\ sent' = [sent EXCEPT ![c] = WsSend(ws[c], @, line)]
          ELSE UNCHANGED <<calls, sent>>
    /\ UNCHANGED <<tailFile, ws, pc, search, recv, unwatched>>
    /\ UNCHANGED <<file, sres, cacheVars, restVars>>

\* the client reads one message from its open socket
ClientReceive(c) ==
    /\ ws[c] = "open"
    /\ recv[c] < Len(sent[c])
    /\ recv' = [recv EXCEPT ![c] = @ + 1]
    /\ UNCHANGED <<tailFile, ws, pc, search, tail, calls, sent, unwatched>>
    /\ UNCHANGED <<file, sres, cacheVars, restVars>>

NextFollow ==
    \/ \E c \in Clients, s \in Searches : Connect(c, s)
    \/ \E c \in Clients : MonitorStart(c)
    \/ \E c \in Clients : SocketError(c)
    \/ \E c \in Clients : SocketClose(c)
    \/ \E l \in LogLines : WriteLogLine(l)
    \/ \E c \in Clients : TailLine(c)
    \/ \E c \in Clients : ClientReceive(c)

SpecFollow == InitFollow /\ [][NextFollow]_vars

\* ------------------------------------------------------------- C5 .. C10
\* the lines of s that contain the substring srch (all of them when srch is
\* empty), in order
RECURSIVE Containing(_, _)
Containing(s, srch) ==
    IF s = <<>> THEN <<>>
    ELSE IF \E i \in 1..(Len(Head(s)) + 1) :
                i + Len(srch) - 1 <= Len(Head(s))
                /\ SubSeq(Head(s), i, i + Len(srch) - 1) = srch
    THEN <<Head(s)>> \o Containing(Tail(s), srch)
    ELSE Containing(Tail(s), srch)

IsPrefix(s, t) == Len(s) <= Len(t) /\ SubSeq(t, 1, Len(s)) = s

\* the lines appended since client c subscribed that its filter lets through
Due(c) == Containing(SubSeq(tailFile, tail[c].start + 1, Len(tailFile)), search[c])

\* C5: the lines passed to a subscriber's callback are, in append order and
\* once each, the lines appended after it subscribed that contain its filter
\* (all lines when the filter is empty): never anything else, and all of
\* them once the watcher has read the file to its end.
C5_FilteredInOrder ==
    \A c \in Clients :
        tail[c].exists =>
            /\ IsPrefix(calls[c], Due(c))
            /\ (tail[c].watching /\ tail[c].pos = Len(tailFile)) => calls[c] = Due(c)

\* a subscriber with a non-empty filter that has read a file holding a line
\* it delivered and a line it skipped
C5_Witness ==
    \E c \in Clients :
        /\ tail[c].watching /\ tail[c].pos = Len(tailFile)
        /\ search[c] # <<>>
        /\ Len(calls[c]) >= 1
        /\ Len(calls[c]) < Len(tailFile) - tail[c].start

\* C6: once the stop function returned by monitorServiceLogs has run, the
\* subscriber's callback is never invoked again.
C6_NoCallbackAfterCancel ==
    [][\A c \in Clients : unwatched[c] > 0 => calls'[c] = calls[c]]_vars

\* a cancelled subscriber with a line in the file that it has not read
C6_Witness ==
    \E c \in Clients :
        /\ unwatched[c] > 0
        /\ tail[c].exists
        /\ tail[c].pos < Len(tailFile)
        /\ LineHandlerDelivers(search[c], tailFile[tail[c].pos + 1])

\* C7: no file watcher stays active for a client whose socket is closed,
\* once the subscription set-up has finished.
C7_NoWatcherForClosedSocket ==
    \A c \in Clients :
        (ws[c] = "closed" /\ pc[c] # "awaiting") => ~tail[c].watching

Queued(c) == Len(sent[c]) - recv[c]

\* a queue bound smaller than the number of lines the service writes
QueueBound == MaxAppend - 1

InitPower ==
    /\ file = <<>>
    /\ sres = NoCall
    /\ inode = 1
    /\ isLog = TRUE
    /\ sidecar = NoSidecar
    /\ ret = NoRet
    /\ winode = 0
    /\ since = "none"
    /\ NoFollower
    /\ NoRest

\* the calls whose docker-compose command is running: kind and service
InFlight ==
    {<<pw[q].actionType, pw[q].serviceName>> :
        q \in {x \in Requests : pw[x].pc = "exec"}}

\* powerAction up to its first await: the validity test, the guard test,
\* the add and the start of the docker-compose command
PowerCallOn(r, actionType, serviceName) ==
    /\ pw[r].pc = "idle"
    /\ IF ~IsPowerAction(actionType)
       THEN /\ pw' = [pw EXCEPT ![r] =
                        [pc |-> "done", actionType |-> actionType,
                         success |-> FALSE, message |-> "invalid",
                         ran |-> FALSE, before |-> processingPowerAction,
                         after |-> processingPowerAction,
                         serviceName |-> serviceName, inFlight |-> InFlight]]
            /\ UNCHANGED processingPowerAction
       ELSE IF GuardHas(processingPowerAction, actionType)
       THEN /\ pw' = [pw EXCEPT ![r] =
                        [pc |-> "done", actionType |-> actionType,
                         success |-> FALSE, message |-> "in progress",
                         ran |-> FALSE, before |-> processingPowerAction,
                         after |-> processingPowerAction,
                         serviceName |-> serviceName, inFlight |-> InFlight]]
            /\ UNCHANGED processingPowerAction
       ELSE /\ processingPowerAction' = GuardAdd(processingPowerAction, actionType)
            /\ pw' = [pw EXCEPT ![r] =
                        [pc |-> "exec", actionType |-> actionType,
                         success |-> FALSE, message |-> "",
                         ran |-> TRUE, before |-> processingPowerAction,
                         after |-> GuardAdd(processingPowerAction, actionType),
                         serviceName |-> serviceName, inFlight |-> InFlight]]
    /\ UNCHANGED <<file, sres, cacheVars, followVars, raceVars, moreVars, dirVars, lateVars>>

\* a powerAction call on the one service of the requests of SpecPower
PowerCall(r, actionType) == PowerCallOn(r, actionType, "app")

\* the docker-compose command ends with exit status 0: the try block ends,
\* the action is deleted from the set and the result returned
ExecResolves(r) ==
    /\ pw[r].pc = "exec"
    /\ processingPowerAction' = GuardDelete(processingPowerAction, pw[r].actionType)
    /\ pw' = [pw EXCEPT ![r] =
                [@ EXCEPT !.pc = "done", !.success = TRUE, !.message = "completed",
                          !.after = GuardDelete(processingPowerAction, pw[r].actionType)]]
    /\ UNCHANGED <<file, sres, cacheVars, followVars, raceVars, moreVars, dirVars, lateVars>>

\* the docker-compose command fails: the catch block runs, the action is
\* deleted from the set and the result returned
ExecRejects(r) ==
    /\ pw[r].pc = "exec"
    /\ processingPowerAction' = GuardDelete(processingPowerAction, pw[r].actionType)
    /\ pw' = [pw EXCEPT ![r] =
                [@ EXCEPT !.pc = "done", !.success = FALSE, !.message = "error",
                          !.after = GuardDelete(processingPowerAction, pw[r].actionType)]]
    /\ UNCHANGED <<file, sres, cacheVars, followVars, raceVars, moreVars, dirVars, lateVars>>

\* the endpoint sends the result; the model reuses the request name
Respond(r) ==
    /\ pw[r].pc = "done"
    /\ pw' = [pw EXCEPT ![r] = NoPowerCall]
    /\ UNCHANGED <<processingPowerAction, file, sres, cacheVars, followVars, raceVars, moreVars, dirVars, lateVars>>

NextPower ==
    \/ \E r \in Requests, a \in ActionTypes : PowerCall(r, a)
    \/ \E r \in Requests : ExecResolves(r)
    \/ \E r \in Requests : ExecRejects(r)
    \/ \E r \in Requests : Respond(r)

SpecPower == InitPower /\ [][NextPower]_vars

\* the action kinds whose docker-compose command is running
Executing == {pw[r].actionType : r \in {q \in Requests : pw[q].pc = "exec"}}

\* C11: the in-flight set holds exactly the kinds of the powerAction calls
\* that are still running; a call that has completed, with success or with
\* a failed command, has left the set without its kind, so the set is empty
\* when no call runs and a later call of the kind is admitted.
C11_GuardReleased ==
    /\ processingPowerAction = Executing
    /\ \A r \in Requests :
          (pw[r].pc = "done" /\ pw[r].ran) => pw[r].actionType \notin pw[r].after

\* a call whose command failed has completed and a later call of the same
\* kind is running
C11_Witness ==
    \E r, q \in Requests :
        /\ pw[r].pc = "done" /\ pw[r].ran /\ ~pw[r].success
        /\ pw[q].pc = "exec" /\ pw[q].actionType = pw[r].actionType

\* C12: no two calls of the same kind run their command at the same time;
\* a call that arrives while its kind is in flight returns success=false,
\* runs no command and leaves the in-flight set as it found it.
C12_OnePerKind ==
    /\ \A r, q \in Requests :
          (r # q /\ pw[r].pc = "exec" /\ pw[q].pc = "exec")
              => pw[r].actionType # pw[q].actionType
    /\ \A r \in Requests :
          (pw[r].pc = "done" /\ pw[r].actionType \in pw[r].before)
              => ~pw[r].success /\ ~pw[r].ran /\ pw[r].after = pw[r].before

\* a call was turned away while another call of its kind is running
C12_Witness ==
    \E r, q \in Requests :
        /\ pw[r].pc = "done" /\ pw[r].message = "in progress"
        /\ pw[q].pc = "exec" /\ pw[q].actionType = pw[r].actionType

\* C13: start, stop, restart and down are each accepted and executed; only
\* an action outside this set is rejected as invalid.
C13_FourActions ==
    \A r \in Requests :
        pw[r].pc = "done" =>
            (pw[r].message = "invalid"
                <=> pw[r].actionType \notin {"START", "STOP", "RESTART", "DOWN"})

\* ------------------------------------------- pagination and search filter
\* the texts of the lines of a searched file and the search strings asked
\* for; matching is case-sensitive
Texts == {<<"e", "r", "r">>, <<"E", "r", "r">>}
SearchStrings == {<<>>, <<"e", "r">>}

PageLineSet ==
    {[ts |-> t, len |-> SHORT_LINE, txt |-> x] : t \in 0..MaxPageTs, x \in Texts}

PageFiles == {F \in SeqsUpTo(PageLineSet, MaxLines) : NonDecreasing(F)}

InitPage ==
    /\ file \in PageFiles
    /\ sres = NoCall
    /\ inode = 1
    /\ isLog = TRUE
    /\ sidecar = NoSidecar
    /\ ret = NoRet
    /\ winode = 0
    /\ since = "none"
    /\ NoFollower
    /\ NoRest

\* a caller reads the range [from, to] with search string s in two pages,
\* (limit O, offset 0) then (limit L, offset O), and in one, (limit L + O,
\* offset 0)
PageCall(from, to, L, O, s) ==
    /\ sres.op = "none"
    /\ sres' = [op |-> "page", from |-> from, to |-> to, L |-> L, O |-> O,
                search |-> s,
                head |-> SearchLogLinesByTimeRange(file, from, to, O, 0, s),
                next |-> SearchLogLinesByTimeRange(file, from, to, L, O, s),
                whole |-> SearchLogLinesByTimeRange(file, from, to, L + O, 0, s)]
    /\ UNCHANGED <<file, cacheVars, followVars, restVars>>

\* a caller reads the range [from, to] with the default limit and offset 0,
\* once with search string s and once without a search string
FilterCall(from, to, s) ==
    /\ sres.op = "none"
    /\ sres' = [op |-> "filter", from |-> from, to |-> to, search |-> s,
                with |-> SearchLogLinesByTimeRange(file, from, to, DEFAULT_LIMIT, 0, s),
                plain |-> SearchLogLinesByTimeRange(file, from, to, DEFAULT_LIMIT, 0, <<>>)]
    /\ UNCHANGED <<file, cacheVars, followVars, restVars>>

NextPage ==
    \/ \E from \in 0..MaxPageTs, to \in 0..MaxPageTs, L \in 0..MaxLines, O \in 0..MaxLines,
          s \in SearchStrings : PageCall(from, to, L, O, s)
    \/ \E from \in 0..MaxPageTs, to \in 0..MaxPageTs, s \in SearchStrings :
          FilterCall(from, to, s)

SpecPage == InitPage /\ [][NextPage]_vars

\* C14: on an unchanged file, for one range and search string, the lines of
\* the page (limit O, offset 0) followed by the lines of the page (limit L,
\* offset O) are the lines of the page (limit L + O, offset 0), and the
\* three results carry the same total.
C14_Pagination ==
    sres.op = "page" =>
        /\ sres.head.lines \o sres.next.lines = sres.whole.lines
        /\ sres.head.total = sres.whole.total
        /\ sres.next.total = sres.whole.total

\* two non-empty pages that together are shorter than the whole result
C14_Witness ==
    /\ sres.op = "page"
    /\ sres.head.lines # <<>> /\ sres.next.lines # <<>>
    /\ Len(sres.whole.lines) < sres.whole.total
    /\ sres.search # <<>>

\* C17: with offset 0 and a limit no smaller than the result, the read with
\* search string s returns the lines of the read without search string that
\* contain s, case-sensitively and in the same order, and its total is the
\* number of lines it retains.
C17_SubstringFilter ==
    sres.op = "filter" =>
        /\ sres.with.lines =
              SelectSeq(sres.plain.lines, LAMBDA i : Includes(file[i].txt, sres.search))
        /\ sres.with.total = Len(sres.with.lines)

\* a search that keeps a line and drops a line that differs only in case
C17_Witness ==
    /\ sres.op = "filter" /\ sres.search # <<>>
    /\ sres.with.lines # <<>>
    /\ Len(sres.with.lines) < Len(sres.plain.lines)

\* --------------------------------------------------------- reading lines
InitLines ==
    /\ file \in Files
    /\ sres = NoCall
    /\ inode = 1
    /\ isLog = TRUE
    /\ sidecar = NoSidecar
    /\ ret = NoRet
    /\ winode = 0
    /\ since = "none"
    /\ NoFollower
    /\ NoRest

\* a caller runs getLogLines(startLine, numLines)
GetLinesCall(startLine, numLines) ==
    /\ sres.op = "none"
    /\ sres' = [op |-> "lines", startLine |-> startLine, numLines |-> numLines,
                lines |-> GetLogLines(file, startLine, numLines)]
    /\ UNCHANGED <<file, cacheVars, followVars, restVars>>

NextLines ==
    \E startLine \in (0 - MaxLines - 1)..(MaxLines + 1), numLines \in 0..(MaxLines + 1) :
        GetLinesCall(startLine, numLines)

SpecLines == InitLines /\ [][NextLines]_vars

\* the line numbers a..b of a file, in file order
LineNumbers(a, b) == [i \in 1..(b - a + 1) |-> a + i - 1]

\* C15: getLogLines(-N, N) with N > 0 returns the last min(N, lineCount)
\* lines of the file, in file order.
C15_NegativeIndex ==
    (sres.op = "lines" /\ sres.numLines > 0 /\ sres.startLine = 0 - sres.numLines)
        => sres.lines = LineNumbers(Len(file) - Min2(sres.numLines, Len(file)) + 1,
                                    Len(file))

\* C16: for startLine >= 0 and numLines > 0 getLogLines returns the lines
\* with index in [startLine, startLine + numLines) that the file has, and
\* nothing else; the list is empty when startLine is past the last line.
C16_PositiveIndex ==
    (sres.op = "lines" /\ sres.numLines > 0 /\ sres.startLine >= 0)
        => sres.lines = LineNumbers(sres.startLine + 1,
                                    Min2(sres.startLine + sres.numLines, Len(file)))

\* -------------------------------------------------------------- C19, C20
\* C19: a sidecar written for an active (.log) file has end null while the
\* call returns the end it scanned; a sidecar written for a rotated file
\* holds the start and the end the call scanned and returned.
C19_PersistedEnd ==
    (ret.called /\ ret.wrote) =>
        /\ ret.end = FindLastTimestamp(ret.file, Size(ret.file))
        /\ isLog => sidecar.end = Null
        /\ ~isLog => /\ sidecar.end = ret.end
                     /\ sidecar.start = ret.start
                     /\ ret.start = FindFirstTimestamp(ret.file, Size(ret.file))

\* a call on an active file that returned an end and wrote the sidecar
C19_Witness ==
    /\ ret.called /\ ret.wrote /\ isLog
    /\ ret.end # Null
    /\ sidecar.exists /\ sidecar.end = Null

\* C20: every sidecar written holds the size, the inode and the header
\* signature of the log file as the writing call saw them, for active and
\* rotated files, the first write included.
C20_IdentityStored ==
    (ret.called /\ ret.wrote) =>
        /\ sidecar.size = Size(ret.file)
        /\ sidecar.inode = ret.inode
        /\ sidecar.headerSig = GetFileHeaderSignature(ret.file)

\* ------------------------------------------- concurrent time-range calls
RaceFiles == {F \in CacheFiles : Len(F) <= 1}

InitRace ==
    /\ file \in RaceFiles
    /\ sres = NoCall
    /\ inode = 1
    /\ isLog = TRUE
    /\ sidecar = NoSidecar
    /\ ret = NoRet
    /\ winode = 0
    /\ since = "none"
    /\ NoFollower
    /\ NoRest

\* a call reads and parses the sidecar (lines 666-673)
ReadSidecar(g) ==
    /\ gt[g].pc = "idle"
    /\ gt' = [gt EXCEPT ![g] = [pc |-> "scan", observed |-> Observe(disk),
                                cache |-> ReadCache(disk), toSave |-> NoSidecar]]
    /\ UNCHANGED <<disk, file, sres, cacheVars, followVars, powerVars, moreVars, dirVars, lateVars>>

\* the call opens the log file, scans it and builds cacheToSave (lines
\* 683-757); it returns here when nothing needs to be computed
ScanLog(g) ==
    /\ gt[g].pc = "scan"
    /\ LET r == GetLogFileTimeRange(gt[g].cache, file, inode, isLog)
       IN gt' = [gt EXCEPT ![g] = [@ EXCEPT !.pc = IF r.wrote THEN "open" ELSE "done",
                                            !.toSave = r.sidecar]]
    /\ UNCHANGED <<disk, file, sres, cacheVars, followVars, powerVars, moreVars, dirVars, lateVars>>

\* fs.promises.writeFile, first part: the sidecar is opened for writing
OpenSidecar(g) ==
    /\ gt[g].pc = "open"
    /\ disk' = OpenTruncating(disk)
    /\ gt' = [gt EXCEPT ![g].pc = "write"]
    /\ UNCHANGED <<file, sres, cacheVars, followVars, powerVars, moreVars, dirVars, lateVars>>

\* fs.promises.writeFile, second part: the JSON text is written and the
\* file closed; the call returns
WriteSidecar(g) ==
    /\ gt[g].pc = "write"
    /\ disk' = WriteBuffer(disk, gt[g].toSave)
    /\ gt' = [gt EXCEPT ![g].pc = "done"]
    /\ UNCHANGED <<file, sres, cacheVars, followVars, powerVars, moreVars, dirVars, lateVars>>

\* the caller has its answer; the model reuses the call name
ReturnRange(g) ==
    /\ gt[g].pc = "done"
    /\ gt' = [gt EXCEPT ![g] = NoGet]
    /\ UNCHANGED <<disk, file, sres, cacheVars, followVars, powerVars, moreVars, dirVars, lateVars>>

\* the service appends a line to its active log file
GrowLog(l) ==
    /\ Len(file) < MaxCacheLines
    /\ NonDecreasing(Append(file, l))
    /\ file' = Append(file, l)
    /\ UNCHANGED <<sres, cacheVars, followVars, restVars>>

NextRace ==
    \/ \E g \in Calls : ReadSidecar(g)
    \/ \E g \in Calls : ScanLog(g)
    \/ \E g \in Calls : OpenSidecar(g)
    \/ \E g \in Calls : WriteSidecar(g)
    \/ \E g \in Calls : ReturnRange(g)
    \/ \E l \in CacheLineSet : GrowLog(l)

SpecRace == InitRace /\ [][NextRace]_vars

\* no call is between the open and the end of its write
NoWriteInProgress == \A g \in Calls : gt[g].pc # "write"

\* C18: a call that reads the sidecar while another call writes it finds
\* the complete previous entry or the complete new one, never an empty or
\* partial one; when the writes have ended the sidecar is the complete
\* entry one of the calls wrote.
C18_AtomicSidecar ==
    /\ \A g \in Calls : gt[g].observed \notin {"empty", "torn"}
    /\ (NoWriteInProgress /\ disk.exists) => Observe(disk) = "complete"

\* -------------------------------------------------------------- C21, C22
\* timestamp of the first timestamped line of F, Null when it has none
FirstTs(F) ==
    LET S == {i \in 1..Len(F) : F[i].ts # Null}
    IN IF S = {} THEN Null ELSE F[MinOf(S)].ts

\* C21 as stated: a sidecar with a non-null start was written for a file
\* that held a timestamped line, the first of which carries that start; a
\* sidecar of a rotated file has a non-null end.
C21_SidecarInvariant ==
    (ret.called /\ ret.wrote) =>
        /\ sidecar.start # Null => sidecar.start = FirstTs(ret.file)
        /\ ~isLog => sidecar.end # Null

\* C22: for a rotated file whose sidecar holds a non-null start and end,
\* getTimeRange returns the two cached values, does not open the log file
\* and leaves the sidecar as it is.
C22_RotatedCacheHit ==
    (ret.called /\ ~isLog /\ ret.pre.exists
        /\ ret.pre.start # Null /\ ret.pre.end # Null)
        => /\ ret.start = ret.pre.start
           /\ ret.end = ret.pre.end
           /\ ~ret.opened
           /\ ~ret.wrote
           /\ sidecar = ret.pre

\* a second call on a rotated file whose first call cached both ends
C22_Witness ==
    /\ ret.called /\ ~isLog /\ ret.pre.exists
    /\ ret.pre.start # Null /\ ret.pre.end # Null
    /\ ret.pre.end > ret.pre.start
    /\ ~ret.opened

\* ------------------------------------------- time-range read under appends
SnapLineSet == {[ts |-> t, len |-> SHORT_LINE] : t \in 0..MaxPageTs}

SnapFiles == {F \in SeqsUpTo(SnapLineSet, MaxLines - 1) : NonDecreasing(F)}

InitSnap ==
    /\ file \in SnapFiles
    /\ sres = NoCall
    /\ inode = 1
    /\ isLog = TRUE
    /\ sidecar = NoSidecar
    /\ ret = NoRet
    /\ winode = 0
    /\ since = "none"
    /\ NoFollower
    /\ NoRest

\* searchLogLinesByTimeRange(from, to) opens the file and reads stats.size
OpenAndStat(from, to) ==
    /\ sres.op = "none"
    /\ sres' = [op |-> "open", from |-> from, to |-> to,
                fileSize |-> Size(file), lineCount |-> Len(file)]
    /\ UNCHANGED <<file, cacheVars, followVars, restVars>>

\* the service appends a line while the query is between its stat and its
\* reads
AppendDuringQuery(l) ==
    /\ sres.op = "open"
    /\ Len(file) < MaxLines + 1
    /\ NonDecreasing(Append(file, l))
    /\ file' = Append(file, l)
    /\ UNCHANGED <<sres, cacheVars, followVars, restVars>>

\* the query runs its two binary searches and reads the slice
ReadRange ==
    /\ sres.op = "open"
    /\ LET r == SearchLogLinesAt(file, sres.fileSize, sres.from, sres.to,
                                 DEFAULT_LIMIT, 0, <<>>)
       IN sres' = [op |-> "read", from |-> sres.from, to |-> sres.to,
                   fileSize |-> sres.fileSize, lineCount |-> sres.lineCount,
                   lines |-> r.lines, startOffset |-> r.startOffset,
                   endOffset |-> r.endOffset]
    /\ UNCHANGED <<file, cacheVars, followVars, restVars>>

NextSnap ==
    \/ \E from \in 0..MaxPageTs, to \in 0..MaxPageTs : OpenAndStat(from, to)
    \/ \E l \in SnapLineSet : AppendDuringQuery(l)
    \/ ReadRange

SpecSnap == InitSnap /\ [][NextSnap]_vars

\* C23: a time-range query returns only lines the file held when the query
\* read its size, and computes no offset beyond that size.
C23_Snapshot ==
    sres.op = "read" =>
        /\ \A k \in 1..Len(sres.lines) : sres.lines[k] <= sres.lineCount
        /\ sres.startOffset <= sres.fileSize
        /\ sres.endOffset <= sres.fileSize

\* --------------------------------------------------- log requests (model)
InitRequest ==
    /\ file = <<>>
    /\ sres = NoCall
    /\ inode = 1
    /\ isLog = TRUE
    /\ sidecar = NoSidecar
    /\ ret = NoRet
    /\ winode = 0
    /\ since = "none"
    /\ NoFollower
    /\ NoRest

\* the request record of a call that has come back, with the status the
\* route handler answers with (0 where src has no route for the function)
Done(fn, args, opened, o, routed) ==
    [fn |-> fn, pc |-> "returned", args |-> args, handle |-> 0,
     opened |-> opened, thrown |-> o.thrown, body |-> o.body, cause |-> o.cause,
     status |-> IF routed THEN HttpStatus(o) ELSE 0]

Holding(fn, args) ==
    [fn |-> fn, pc |-> "open", args |-> args, handle |-> 1, opened |-> TRUE,
     thrown |-> FALSE, body |-> "none", cause |-> "none", status |-> 0]

\* GET /api/services/:name/logs/read
ReadRequest(q, serviceExists, fileArg, numLines, readOk) ==
    /\ rq[q].pc = "idle"
    /\ rq' = [rq EXCEPT ![q] =
                Done("read", <<serviceExists, fileArg, numLines, readOk>>, FALSE,
                     GetLogLinesOutcome(serviceExists, fileArg, numLines, readOk),
                     TRUE)]
    /\ UNCHANGED <<file, sres, cacheVars, followVars, powerVars, raceVars, dirVars, lateVars>>

\* POST /api/services/:name/logs/search up to the open of the log file
SearchBegin(q, serviceExists, fileArg, timeOk, openOk) ==
    /\ rq[q].pc = "idle"
    /\ LET o == SearchBeginOutcome(serviceExists, fileArg, timeOk, openOk)
           args == <<serviceExists, fileArg, timeOk, openOk>>
       IN rq' = [rq EXCEPT ![q] = IF o.body = "open" THEN Holding("search", args)
                                  ELSE Done("search", args, FALSE, o, TRUE)]
    /\ UNCHANGED <<file, sres, cacheVars, followVars, powerVars, raceVars, dirVars, lateVars>>

\* the search goes on to its end; the finally block closes the handle
SearchEnd(q, ioOk, emptyRange) ==
    /\ rq[q].pc = "open" /\ rq[q].fn = "search"
    /\ rq' = [rq EXCEPT ![q] =
                [Done("search", rq[q].args \o <<ioOk, emptyRange>>, TRUE,
                      SearchEndOutcome(ioOk, emptyRange), TRUE)
                 EXCEPT !.handle = FinallyClose(rq[q].handle)]]
    /\ UNCHANGED <<file, sres, cacheVars, followVars, powerVars, raceVars, dirVars, lateVars>>

\* getLogFileTimeRange up to the open of the log file
RangeBegin(q, serviceExists, fileExists, staticHit, openOk) ==
    /\ rq[q].pc = "idle"
    /\ LET o == RangeBeginOutcome(serviceExists, fileExists, staticHit, openOk)
           args == <<serviceExists, fileExists, staticHit, openOk>>
       IN rq' = [rq EXCEPT ![q] = IF o.body = "open" THEN Holding("range", args)
                                  ELSE Done("range", args, FALSE, o, FALSE)]
    /\ UNCHANGED <<file, sres, cacheVars, followVars, powerVars, raceVars, dirVars, lateVars>>

\* getLogFileTimeRange goes on to its end; the finally block closes the
\* handle
RangeEnd(q, scanOk, nothingNeeded, writeOk) ==
    /\ rq[q].pc = "open" /\ rq[q].fn = "range"
    /\ rq' = [rq EXCEPT ![q] =
                [Done("range", rq[q].args \o <<scanOk, nothingNeeded, writeOk>>,
                      TRUE, RangeEndOutcome(scanOk, nothingNeeded, writeOk), FALSE)
                 EXCEPT !.handle = FinallyClose(rq[q].handle)]]
    /\ UNCHANGED <<file, sres, cacheVars, followVars, powerVars, raceVars, dirVars, lateVars>>

NextRequest ==
    \/ \E q \in LogRequests, svc \in BOOLEAN, f \in {"missing", "absent", "present"},
          n \in {-1, 0, 1}, ok \in BOOLEAN : ReadRequest(q, svc, f, n, ok)
    \/ \E q \in LogRequests, svc \in BOOLEAN, f \in {"missing", "absent", "present"},
          t \in BOOLEAN, ok \in BOOLEAN : SearchBegin(q, svc, f, t, ok)
    \/ \E q \in LogRequests, ok \in BOOLEAN, e \in BOOLEAN : SearchEnd(q, ok, e)
    \/ \E q \in LogRequests, svc \in BOOLEAN, f \in BOOLEAN, hit \in BOOLEAN,
          ok \in BOOLEAN : RangeBegin(q, svc, f, hit, ok)
    \/ \E q \in LogRequests, ok \in BOOLEAN, nn \in BOOLEAN, w \in BOOLEAN :
          RangeEnd(q, ok, nn, w)

SpecRequest == InitRequest /\ [][NextRequest]_vars

\* C24: when searchLogLinesByTimeRange or getLogFileTimeRange has come back,
\* by a result, an early empty result, a cache hit or an error, the file
\* handle it opened is closed.
C24_HandlesClosed ==
    \A q \in LogRequests : rq[q].pc = "returned" => rq[q].handle = 0

\* a search that failed after its open and a time-range call whose sidecar
\* write failed have both come back
C24_Witness ==
    \E q, p \in LogRequests :
        /\ rq[q].pc = "returned" /\ rq[q].fn = "search"
        /\ rq[q].opened /\ rq[q].cause = "io"
        /\ rq[p].pc = "returned" /\ rq[p].fn = "range"
        /\ rq[p].opened /\ rq[p].cause = "io" /\ rq[p].body = "range"

\* the causes that are validation failures
ValidationCauses ==
    {"unknown service", "missing file", "no such file", "bad time", "bad num"}

\* C25: a request that fails validation is answered with HTTP 400, which
\* tells it from a successful empty result.
C25_ValidationSurfaced ==
    \A q \in LogRequests :
        (rq[q].pc = "returned" /\ rq[q].fn \in {"read", "search"}
            /\ rq[q].cause \in ValidationCauses) => rq[q].status = 400

\* C26: an I/O failure inside getLogLines, searchLogLinesByTimeRange or
\* getLogFileTimeRange reaches the caller as an error (HTTP 500 where the
\* function has a route), never as a result.
C26_IoErrorSurfaced ==
    \A q \in LogRequests :
        (rq[q].pc = "returned" /\ rq[q].cause = "io")
            => /\ rq[q].thrown
               /\ rq[q].fn \in {"read", "search"} => rq[q].status = 500

ServiceEntries ==
    {[name |-> <<"app", ".log">>, kind |-> "file", by |-> "service"],
     [name |-> <<"app", ".log", ".1">>, kind |-> "file", by |-> "service"],
     [name |-> <<"archive">>, kind |-> "dir", by |-> "service"]}

InitDir ==
    /\ file = <<>>
    /\ sres = NoCall
    /\ inode = 1
    /\ isLog = TRUE
    /\ sidecar = NoSidecar
    /\ ret = NoRet
    /\ winode = 0
    /\ since = "none"
    /\ NoFollower
    /\ NoPower /\ NoRace /\ NoMore /\ NoLate
    /\ dir \in SUBSET ServiceEntries
    /\ listed = NoListing

\* getLogFileTimeRange on a regular file of the directory, a sidecar
\* included: when it writes (line 761) the sidecar of that file exists
\* afterwards
TimeRangeCall(e, wrote) ==
    /\ e \in dir /\ e.kind = "file"
    /\ Len(e.name) < MaxNameParts
    /\ dir' = IF wrote /\ ~\E x \in dir : x.name = CacheFileName(e.name)
              THEN dir \cup {[name |-> CacheFileName(e.name), kind |-> "file",
                              by |-> "timecache"]}
              ELSE dir
    /\ UNCHANGED <<file, sres, cacheVars, followVars, powerVars, raceVars,
                   moreVars, listed, lateVars>>

\* the service creates a log file or the subdirectory
CreateEntry(e) ==
    /\ e \notin dir
    /\ dir' = dir \cup {e}
    /\ UNCHANGED <<file, sres, cacheVars, followVars, powerVars, raceVars,
                   moreVars, listed, lateVars>>

\* GET /api/services/:name/logs/files
ListLogFiles(serviceExists) ==
    /\ listed' = [called |-> TRUE, serviceExists |-> serviceExists,
                  names |-> GetServiceLogs(serviceExists, dir), saw |-> dir]
    /\ UNCHANGED <<file, sres, cacheVars, followVars, powerVars, raceVars,
                   moreVars, dir, lateVars>>

NextDir ==
    \/ \E e \in dir, w \in BOOLEAN : TimeRangeCall(e, w)
    \/ \E e \in ServiceEntries : CreateEntry(e)
    \/ \E svc \in BOOLEAN : ListLogFiles(svc)

SpecDir == InitDir /\ [][NextDir]_vars

\* C28: whatever sidecars getLogFileTimeRange calls have created, the list
\* answered for an existing service holds the name of every regular file
\* the service put into the logs directory, and no name that ends in
\* .timecache.
C28_ListsLogsOnly ==
    (listed.called /\ listed.serviceExists) =>
        /\ \A e \in listed.saw :
              (e.kind = "file" /\ e.by = "service") => e.name \in listed.names
        /\ \A n \in listed.names : ~EndsWith(n, TIMECACHE)

\* a list was answered for a directory that holds a log file, its sidecar
\* and the sidecar of a sidecar
C28_Witness ==
    /\ listed.called /\ listed.serviceExists
    /\ listed.names # {}
    /\ \E e \in listed.saw : e.by = "timecache" /\ Len(e.name) = 3
    /\ \E e \in listed.saw : e.by = "timecache" /\ Len(e.name) = 4

InitLocate ==
    /\ file \in Files
    /\ sres = NoCall
    /\ inode = 1
    /\ isLog = TRUE
    /\ sidecar = NoSidecar
    /\ ret = NoRet
    /\ winode = 0
    /\ since = "none"
    /\ NoFollower
    /\ NoRest

\* the locator step for the byte offset p of the file; on an empty read the
\* loop breaks without an answer
Locate(p) ==
    /\ sres.op = "none"
    /\ LET loc == LineLocator(file, Size(file), p)
       IN /\ loc.bytesRead # 0
          /\ sres' = [op |-> "locate", p |-> p, lineStart |-> loc.lineStartOffset]
    /\ UNCHANGED <<file, cacheVars, followVars, restVars>>

NextLocate == \E p \in 0..Size(file) : Locate(p)

SpecLocate == InitLocate /\ [][NextLocate]_vars

\* the smallest q >= p that is 0 or follows a newline
NextLineStart(F, p) ==
    MinOf({LineStart(F, i) : i \in {j \in 1..(Len(F) + 1) : LineStart(F, j) >= p}})

\* C30: for every byte offset p of the file the locator answers the
\* smallest offset q >= p that is 0 or follows a newline; p itself when p
\* is 0 or the start of a line.
C30_LineLocator ==
    sres.op = "locate" => sres.lineStart = NextLineStart(file, sres.p)

\* ------------------------------------------- binary search by steps (model)
\* lines of the files searched step by step: those of LineSet and a long
\* continuation line that holds, one scan chunk after its start, text that
\* reads as a timestamp
LoopLineSet ==
    LineSet \cup {[ts |-> Null, len |-> LONG_LINE, q |-> SCAN_CHUNK, qts |-> t] :
                    t \in 1..MaxTs}

LoopFiles == {F \in SeqsUpTo(LoopLineSet, MaxLines) : NonDecreasing(F)}

InitLoop ==
    /\ file \in LoopFiles
    /\ sres = NoCall
    /\ inode = 1
    /\ isLog = TRUE
    /\ sidecar = NoSidecar
    /\ ret = NoRet
    /\ winode = 0
    /\ since = "none"
    /\ NoFollower
    /\ NoRest

\* #findOffsetByTime is entered: low = minOffset, high = fileSize,
\* resultOffset = fileSize
EnterFind(targetTimeTs, findStart, minOffset) ==
    [NoSearch EXCEPT !.pc = "loop", !.target = targetTimeTs,
                     !.fileSize = Size(file), !.minOffset = minOffset,
                     !.low = minOffset, !.high = Size(file),
                     !.resultOffset = Size(file), !.findStart = findStart]

\* searchLogLinesByTimeRange looks for startOffset:
\* #findOffsetByTime(fileHandle, fileSize, startTs, true)
BeginFind(startTs) ==
    /\ bs.pc = "idle"
    /\ bs' = EnterFind(startTs, TRUE, 0)
    /\ UNCHANGED exceptLoop

\* with startOffset found it looks for endOffset:
\* #findOffsetByTime(fileHandle, fileSize, endTs + 1, false, startOffset)
BeginFindEnd(endTs) ==
    /\ bs.pc = "done" /\ bs.findStart
    /\ bs' = EnterFind(endTs + 1, FALSE, bs.resultOffset)
    /\ UNCHANGED exceptLoop

\* the end of an iteration whose pivot is the line at lineStartOffset with
\* timestamp logTimeTs: the comparison with the target moves low or high
AfterPivot(b, mid, bytesRead, logTimeTs, lineStartOffset) ==
    \E st \in {SearchStep(b.target, b.low, b.high, b.resultOffset, mid,
                           [bytesRead |-> bytesRead,
                            at |-> [logTimeTs |-> logTimeTs,
                                    lineStartOffset |-> lineStartOffset]])} :
        bs' = [b EXCEPT !.pc = IF st.stop THEN "done" ELSE "loop",
                        !.low = st.low, !.high = st.high,
                        !.resultOffset = st.resultOffset, !.mid = mid,
                        !.iters = @ + 1]

\* the loop test and one iteration up to the forward scan: the loop ends
\* when low >= high; otherwise the locator step and #extractTimeAtOffset
\* give the pivot, and a pivot without timestamp below fileSize enters
\* #scanForwardForTime
Iterate ==
    /\ bs.pc = "loop"
    /\ IF ~(bs.low < bs.high) THEN bs' = [bs EXCEPT !.pc = "done"]
       ELSE \E mid \in {(bs.low + bs.high) \div 2} :
            \E loc \in {LineLocator(file, bs.fileSize, mid)} :
            \E ts0 \in {IF loc.newlineIndex # -1
                         THEN ExtractTimeAtOffset(file, loc.lineStartOffset)
                         ELSE Null} :
               IF loc.bytesRead # 0 /\ ts0 = Null
                  /\ loc.lineStartOffset < bs.fileSize
               THEN bs' = [bs EXCEPT !.pc = "scan", !.mid = mid,
                                     !.lineStart = loc.lineStartOffset,
                                     !.currentOffset = loc.lineStartOffset]
               ELSE AfterPivot(bs, mid, loc.bytesRead, ts0, loc.lineStartOffset)
    /\ UNCHANGED exceptLoop

\* one round of the while loop of #scanForwardForTime: it ends without a
\* timestamp at fileSize or on an empty read, ends with the first piece of
\* the chunk that begins with a timestamp, or moves on by 512 bytes
ScanChunk ==
    /\ bs.pc = "scan"
    /\ \E bytesRead \in {Min2(SCAN_CHUNK, Max2(0, Size(file) - bs.currentOffset))} :
       \E M \in {PieceMatches(file, bs.currentOffset, bs.currentOffset + bytesRead)} :
          IF ~(bs.currentOffset < bs.fileSize) \/ bytesRead = 0
          THEN AfterPivot(bs, bs.mid, 1, Null, bs.lineStart)
          ELSE IF M # {}
          THEN \E m \in {FirstMatch(M)} :
                  AfterPivot([bs EXCEPT !.chunks = @ + 1], bs.mid, 1, m.ts, m.off)
          ELSE bs' = [bs EXCEPT !.currentOffset = @ + SCAN_CHUNK,
                                !.chunks = @ + 1]
    /\ UNCHANGED exceptLoop

NextLoop ==
    \/ \E t \in 1..(MaxTs + 1) : BeginFind(t)
    \/ \E t \in 1..MaxTs : BeginFindEnd(t)
    \/ Iterate
    \/ ScanChunk

SpecLoop == InitLoop /\ [][NextLoop]_vars

\* the reads of the search are awaited one after the other and each of
\* them completes
SpecLoopFair == SpecLoop /\ WF_vars(Iterate) /\ WF_vars(ScanChunk)

\* C31: #findOffsetByTime terminates on every file and target: every
\* completed iteration makes the interval [low, high) strictly shorter, the
\* forward scan moves on by a chunk or ends, and the search ends with
\* low >= high holding the last recorded candidate or the file size.
C31_Terminates ==
    /\ (bs.pc = "loop") ~> (bs.pc = "done")
    /\ [][(bs.pc \in {"loop", "scan"} /\ bs'.pc = "loop")
            => bs'.high - bs'.low < bs.high - bs.low]_vars
    /\ [][(bs.pc = "scan" /\ bs'.pc = "scan")
            => (bs'.currentOffset > bs.currentOffset
                /\ bs.currentOffset < bs.fileSize)]_vars
    /\ [](bs.pc = "done" => bs.low >= bs.high)

\* a search has ended after several iterations and a forward scan of more
\* than one chunk, with a candidate below the file size
C31_Witness ==
    /\ bs.pc = "done"
    /\ bs.iters >= 3
    /\ bs.chunks >= 2
    /\ bs.resultOffset < bs.fileSize

\* C32: the offset #findOffsetByTime returns is the file size or the start
\* of a timestamped line, never the start of a continuation line or a
\* position inside a line, and it is never below minOffset.
C32_AnchorIsLineStart ==
    bs.pc = "done" =>
        /\ \/ bs.resultOffset = bs.fileSize
           \/ \E i \in 1..Len(file) :
                 file[i].ts # Null /\ LineStart(file, i) = bs.resultOffset
        /\ bs.resultOffset >= bs.minOffset

\* C33: for an active file that has not changed since its sidecar was
\* written, getTimeRange returns the cached entry: it goes neither to the
\* scans of the log file nor to the write of the sidecar, and returns the
\* start it returned before.
C33_ActiveCacheHit ==
    (ret.called /\ isLog /\ ret.pre.exists /\ ret.since = "same")
        => /\ ~ret.wrote
           /\ sidecar = ret.pre
           /\ ret.start = ret.pre.start

\* ------------------------------------- power actions on several services
Services == {"app", "db"}

NextPowerOn ==
    \/ \E r \in Requests, a \in {"START", "STOP", "DOWN"}, n \in Services :
          PowerCallOn(r, a, n)
    \/ \E r \in Requests : ExecResolves(r)
    \/ \E r \in Requests : ExecRejects(r)
    \/ \E r \in Requests : Respond(r)

SpecPowerOn == InitPower /\ [][NextPowerOn]_vars

\* C34: a powerAction call of a valid kind is turned away as already in
\* progress exactly when a call of the same kind is running, on whatever
\* service; running calls of other kinds, on the same service too, do not
\* keep it from running its command.
C34_KeyedByKind ==
    \A r \in Requests :
        (pw[r].pc \in {"exec", "done"} /\ IsPowerAction(pw[r].actionType))
            => /\ pw[r].message = "in progress"
                    <=> \E x \in pw[r].inFlight : x[1] = pw[r].actionType
               /\ pw[r].ran
                    <=> ~\E x \in pw[r].inFlight : x[1] = pw[r].actionType

\* START and STOP run at the same time on one service while a START on
\* another service was turned away
C34_Witness ==
    \E r, q, t \in Requests :
        /\ pw[r].pc = "exec" /\ pw[r].actionType = "START"
        /\ pw[q].pc = "exec" /\ pw[q].actionType = "STOP"
        /\ pw[q].serviceName = pw[r].serviceName
        /\ pw[t].pc = "done" /\ pw[t].actionType = "START"
        /\ pw[t].serviceName # pw[r].serviceName
        /\ pw[t].message = "in progress"
        /\ <<"START", pw[r].serviceName>> \in pw[t].inFlight

\* --------------------------------------------------- .env file (model)
InitEnv ==
    /\ file = <<>>
    /\ sres = NoCall
    /\ inode = 1
    /\ isLog = TRUE
    /\ sidecar = NoSidecar
    /\ ret = NoRet
    /\ winode = 0
    /\ since = "none"
    /\ NoFollower
    /\ NoPower /\ NoRace /\ NoMore /\ NoDir
    /\ bs = NoSearch /\ NoStatus
    /\ envFile \in [EnvKeys -> {Absent, OldValue}]
    /\ env0 = envFile
    /\ ew = [c \in EnvCalls |-> NoEnvCall]

\* writeServiceEnvConfig(serviceName, envData) up to the end of its read:
\* existingEnv is what EnvUtils.loadFromPath finds in the file, or {} when
\* there is no file
LoadEnv(c, named) ==
    /\ ew[c].pc = "idle"
    /\ ew' = [ew EXCEPT ![c] =
                [pc |-> "loaded",
                 envData |-> [k \in EnvKeys |-> IF k \in named THEN EnvValue(c)
                                                ELSE Absent],
                 existingEnv |-> envFile, success |-> FALSE]]
    /\ UNCHANGED <<envFile, env0>>
    /\ UNCHANGED exceptEnv

\* the merge, stringify and fs.promises.writeFile; when the write fails the
\* catch block returns success: false
WriteEnv(c, writeOk) ==
    /\ ew[c].pc = "loaded"
    /\ envFile' = IF writeOk THEN MergeEnv(ew[c].existingEnv, ew[c].envData)
                  ELSE envFile
    /\ ew' = [ew EXCEPT ![c] = [@ EXCEPT !.pc = "done", !.success = writeOk]]
    /\ UNCHANGED env0
    /\ UNCHANGED exceptEnv

NextEnv ==
    \/ \E c \in EnvCalls, named \in SUBSET EnvKeys : LoadEnv(c, named)
    \/ \E c \in EnvCalls, ok \in BOOLEAN : WriteEnv(c, ok)

SpecEnv == InitEnv /\ [][NextEnv]_vars

\* the calls that have returned success: true
Succeeded == {c \in EnvCalls : ew[c].pc = "done" /\ ew[c].success}

\* C35: when the writeServiceEnvConfig calls on a service have returned,
\* the .env file holds every key it held before and every key a successful
\* call set; a key set by successful calls holds the value of one of them,
\* and a key no successful call named holds its previous value.
C35_NoLostKey ==
    (\A c \in EnvCalls : ew[c].pc \in {"idle", "done"}) =>
        \A k \in EnvKeys :
            LET setters == {c \in Succeeded : ew[c].envData[k] # Absent}
            IN IF setters = {} THEN envFile[k] = env0[k]
               ELSE envFile[k] \in {EnvValue(c) : c \in setters}

\* C36: the stop function of one subscriber leaves the watchers, the
\* callback calls and the sent messages of the other subscribers of the
\* file as they are, and a subscriber that is still watching has been
\* handed, once it has read the file to its end, every line appended since
\* it started that its own filter accepts, whatever the others did.
C36_SubscribersIsolated ==
    /\ [][\A c \in Clients :
             unwatched'[c] = unwatched[c] + 1
                 => \A d \in Clients \ {c} :
                        /\ tail'[d] = tail[d]
                        /\ calls'[d] = calls[d]
                        /\ sent'[d] = sent[d]]_vars
    /\ [](\A d \in Clients :
             (tail[d].watching /\ tail[d].pos = Len(tailFile))
                 => calls[d] = Due(d))

\* one subscriber was stopped before a line its filter accepts; another
\* subscriber with another filter went on and was handed that line
C36_Witness ==
    \E c, d \in Clients :
        /\ unwatched[c] > 0 /\ tail[c].exists
        /\ tail[c].pos < Len(tailFile)
        /\ LineHandlerDelivers(search[c], tailFile[tail[c].pos + 1])
        /\ search[d] # search[c]
        /\ tail[d].watching /\ tail[d].pos = Len(tailFile)
        /\ tail[d].start <= tail[c].pos
        /\ LineHandlerDelivers(search[d], tailFile[tail[c].pos + 1])
        /\ Len(calls[d]) >= 1

\* ------------------------------------------------ status broadcast (model)
InitStatus ==
    /\ file = <<>>
    /\ sres = NoCall
    /\ inode = 1
    /\ isLog = TRUE
    /\ sidecar = NoSidecar
    /\ ret = NoRet
    /\ winode = 0
    /\ since = "none"
    /\ NoFollower
    /\ NoPower /\ NoRace /\ NoMore /\ NoDir
    /\ bs = NoSearch /\ NoEnv
    /\ up \in [ServiceNames -> BOOLEAN]
    /\ flips = 0
    /\ serviceStatusState = [n \in ServiceNames |-> "none"]
    /\ poll = [p \in Rounds |-> IF p = "init" THEN [NoRound EXCEPT !.pc = "start"]
                                 ELSE NoRound]
    /\ casts = [n \in ServiceNames |-> <<>>]
    /\ sc = [u \in StatusClients |-> NoStatusClient]

\* the containers of a service start or stop
ServiceFlips(n) ==
    /\ flips < MaxFlips
    /\ flips' = flips + 1
    /\ up' = [up EXCEPT ![n] = ~@]
    /\ UNCHANGED <<serviceStatusState, poll, casts, sc>>
    /\ UNCHANGED exceptStatus

\* a round begins: initializeStatusesAndStartPolling at server start, or
\* broadcastStatusUpdates when the 3-second timer fires, which it does only
\* once the first round is over and whether or not an earlier round is
\* still under way. listServices answers, or throws and ends the round.
RoundStart(p, listed0) ==
    /\ IF p = "init" THEN poll[p].pc = "start"
       ELSE poll[p].pc = "idle" /\ poll["init"].pc = "idle"
    /\ poll' = [poll EXCEPT ![p] = IF listed0 THEN [pc |-> "next", i |-> 1,
                                                     isUp |-> FALSE]
                                   ELSE NoRound]
    /\ UNCHANGED <<up, flips, serviceStatusState, casts, sc>>
    /\ UNCHANGED exceptStatus

\* the round calls isServiceUp for its next service: docker ps reads the
\* state of the containers; the round ends after the last service
PollService(p) ==
    /\ poll[p].pc = "next"
    /\ poll' = [poll EXCEPT ![p] =
                  IF poll[p].i > Len(ServiceList) THEN NoRound
                  ELSE [@ EXCEPT !.pc = "awaiting",
                                 !.isUp = up[ServiceList[poll[p].i]]]]
    /\ UNCHANGED <<up, flips, serviceStatusState, casts, sc>>
    /\ UNCHANGED exceptStatus

\* isServiceUp resolves. The first round records the status; a timer round
\* compares it with the recorded one and, when it differs, records it and
\* sends it to every open client
PollResolves(p) ==
    /\ poll[p].pc = "awaiting"
    /\ LET service == ServiceList[poll[p].i]
           newStatus == StatusOf(poll[p].isUp)
       IN IF p = "init"
          THEN /\ serviceStatusState' = [serviceStatusState EXCEPT ![service] = newStatus]
               /\ UNCHANGED <<casts, sc>>
          ELSE IF StatusChanged(serviceStatusState[service], newStatus)
          THEN /\ serviceStatusState' = [serviceStatusState EXCEPT ![service] = newStatus]
               /\ casts' = [casts EXCEPT ![service] = Append(@, newStatus)]
               /\ sc' = BroadcastTo(sc, <<service, newStatus>>)
          ELSE UNCHANGED <<serviceStatusState, casts, sc>>
    /\ poll' = [poll EXCEPT ![p] = [@ EXCEPT !.pc = "next", !.i = @ + 1]]
    /\ UNCHANGED <<up, flips>>
    /\ UNCHANGED exceptStatus

\* a client connects to /ws/status: the connection handler sends it the
\* recorded statuses
StatusConnect(u) ==
    /\ sc[u].readyState = "none"
    /\ sc' = [sc EXCEPT ![u] =
                [readyState |-> "open", saw |-> serviceStatusState,
                 hello |-> HelloMessages(serviceStatusState),
                 inbox |-> HelloMessages(serviceStatusState)]]
    /\ UNCHANGED <<up, flips, serviceStatusState, poll, casts>>
    /\ UNCHANGED exceptStatus

\* the client goes away
StatusClose(u) ==
    /\ sc[u].readyState = "open"
    /\ sc' = [sc EXCEPT ![u] = [@ EXCEPT !.readyState = "closed"]]
    /\ UNCHANGED <<up, flips, serviceStatusState, poll, casts>>
    /\ UNCHANGED exceptStatus

NextStatus ==
    \/ \E n \in ServiceNames : ServiceFlips(n)
    \/ \E p \in Rounds, ok \in BOOLEAN : RoundStart(p, ok)
    \/ \E p \in Rounds : PollService(p)
    \/ \E p \in Rounds : PollResolves(p)
    \/ \E u \in StatusClients : StatusConnect(u)
    \/ \E u \in StatusClients : StatusClose(u)

SpecStatus == InitStatus /\ [][NextStatus]_vars

\* C37: a status is broadcast for a service only on a step that changes the
\* recorded status of that service to it, so no two consecutive broadcasts
\* for a service carry the same status, overlapping rounds or not; and the
\* messages sent to a client begin with one message per service that had a
\* recorded status when it connected, carrying that status.
C37_BroadcastOnChange ==
    /\ [][\A n \in ServiceNames :
             casts'[n] # casts[n]
                 => /\ serviceStatusState'[n] # serviceStatusState[n]
                    /\ casts'[n] = Append(casts[n], serviceStatusState'[n])]_vars
    /\ [](\A n \in ServiceNames : \A k \in 1..(Len(casts[n]) - 1) :
             casts[n][k] # casts[n][k + 1])
    /\ [](\A u \in StatusClients :
             sc[u].readyState # "none"
                 => /\ SubSeq(sc[u].inbox, 1, Len(sc[u].hello)) = sc[u].hello
                    /\ \A n \in ServiceNames :
                          Cardinality({k \in 1..Len(sc[u].hello) :
                                          sc[u].hello[k][1] = n})
                              = IF sc[u].saw[n] = "none" THEN 0 ELSE 1
                    /\ \A k \in 1..Len(sc[u].hello) :
                          sc[u].hello[k][2] = sc[u].saw[sc[u].hello[k][1]])

\* two timer rounds are under way at once, a service has had its status
\* broadcast three times, and a client that was greeted with the statuses
\* of both services has been sent a broadcast since
C37_Witness ==
    /\ poll["t1"].pc = "awaiting" /\ poll["t2"].pc = "awaiting"
    /\ \E n \in ServiceNames : Len(casts[n]) >= 3
    /\ \E u \in StatusClients :
          /\ Len(sc[u].hello) = 2
          /\ Len(sc[u].inbox) > Len(sc[u].hello)

\* ------------------------------------------------ sidecar contents (code)
\* what a sidecar may hold besides an entry this program wrote: bytes that
\* JSON.parse rejects (an empty or cut file, other text), and the JSON text
\* null, which JSON.parse accepts
SidecarTexts == {"garbage", "null"}
ForeignSidecar(text) == [exists |-> TRUE, text |-> text]
IsForeign(onDisk) == "text" \in DOMAIN onDisk

\* JSON.parse(cacheContent) inside the try block of lines 666-673: a throw
\* leaves the default cache, null replaces it
ParseSidecar(onDisk) ==
    IF ~IsForeign(onDisk) THEN onDisk
    ELSE IF onDisk.text = "null" THEN [exists |-> TRUE, null |-> TRUE]
    ELSE NoSidecar

\* getLogFileTimeRange on whatever the sidecar holds. With cache = null a
\* static file dereferences it at line 677, outside every try block; an
\* active file dereferences it at line 692, where the catch of line 763 logs
\* the TypeError, and again in the return statement of line 771: the call
\* rejects and the sidecar is left as it was
GetLogFileTimeRangeOn(onDisk, F, ino, logFile) ==
    LET cache == ParseSidecar(onDisk)
    IN IF "null" \in DOMAIN cache
       THEN [start |-> Null, end |-> Null, opened |-> logFile,
             wrote |-> FALSE, sidecar |-> onDisk, failed |-> TRUE]
       ELSE LET r == GetLogFileTimeRange(cache, F, ino, logFile)
            IN [start |-> r.start, end |-> r.end, opened |-> r.opened,
                wrote |-> r.wrote,
                sidecar |-> IF r.wrote THEN r.sidecar ELSE onDisk,
                failed |-> FALSE]

\* ----------------------------------------------- sidecar contents (model)
InitCorrupt == InitCache

\* a client asks for the time range of the file
GetTimeRangeOn ==
    /\ \E r \in {GetLogFileTimeRangeOn(sidecar, file, inode, isLog)} :
          /\ ret' = [called |-> TRUE, start |-> r.start, end |-> r.end,
                     opened |-> r.opened, wrote |-> r.wrote,
                     pre |-> sidecar, since |-> since, winode |-> winode,
                     file |-> file, inode |-> inode, failed |-> r.failed]
          /\ winode' = IF r.wrote THEN inode ELSE winode
          /\ sidecar' = r.sidecar
          /\ since' = IF r.wrote THEN "same" ELSE since
    /\ UNCHANGED <<file, sres, inode, isLog, followVars, restVars>>

\* something other than this program leaves the sidecar with the text
CorruptSidecar(text) ==
    /\ ~IsForeign(sidecar)
    /\ sidecar' = ForeignSidecar(text)
    /\ since' = "corrupt"
    /\ UNCHANGED <<file, sres, inode, isLog, ret, winode, followVars, restVars>>

NextCorrupt ==
    \/ GetTimeRangeOn
    \/ \E l \in CacheLineSet : AppendLine(l)
    \/ RotateFile
    \/ TruncateFile
    \/ \E text \in SidecarTexts : CorruptSidecar(text)

SpecCorrupt == InitCorrupt /\ [][NextCorrupt]_vars

====
